---- MODULE Spec2Model ----
(***************************************************************************)
(* A model of hashicorp/go-pgmultiauth: the Config validation, the entry   *)
(* points (Open, GetConnector, NewDBPool, BeforeConnectFn,                 *)
(* GetAuthenticatedConnString), the retrying token fetch and the           *)
(* double-checked token refresh of the callback BeforeConnectFn returns.   *)
(*                                                                         *)
(* Time is counted in whole minutes.  Instant 0 is Go's zero time.Time;    *)
(* the clock starts at 1.  A token's credential string is identified by    *)
(* the ordinal of the getAuthTokenWithRetry sequence that produced it.     *)
(***************************************************************************)
EXTENDS Integers, Sequences, FiniteSets, TLC

VARIABLES
    config,     \* the Config value the entry point was called with
    entry,      \* which exported function was called
    ctor,       \* position of that call
    cerr,       \* the error it returned ("none" while running or on success)
    handle,     \* what it returned besides the error
    result,     \* the connection string GetAuthenticatedConnString returned
    now,        \* wall clock, minutes
    token,      \* the captured variable `token` of BeforeConnectFn (NilToken = nil)
    mutex,      \* tokenMutex: 0 when free, else the caller holding it
    pc,         \* position of each caller inside the callback
    att,        \* attempts made by the retry loop each process is running (0 = the entry point)
    password,   \* connConfig.Password of each caller's connection attempt
    ret,        \* what each caller's last invocation returned
    path,       \* history: outcome of the invocation's first validity check
    seen,       \* history: id of the token examined by that first check
    fetchSeqs,  \* history: number of getAuthTokenWithRetry sequences started
    outs,       \* history: outcome of each attempt of the latest sequence
    logged,     \* what the OnRetry callback has sent to config.logger.Error in that sequence
    slept,      \* history: the waits of retry.Do between the attempts of that sequence, in ms
    retry,      \* the locals token and err of that getAuthTokenWithRetry call
    begun,      \* history: number of callback invocations started
    lastGen,    \* history: the latest successful provider call: token id, report, valid() at once, instant
    repl,       \* a call of replaceDBPassword: its arguments, its position and its results
    dflt,       \* a call of DefaultConfig: its arguments, its position and its local authMode
    ctxDone,    \* whether the ctx the entry point or the callback was called with is cancelled
    two,        \* two BeforeConnectFn calls side by side: their configs, locals and callers
    opts        \* history: the options NewConfig has applied to config, in their order

vars == <<config, entry, ctor, cerr, handle, result, now, token, mutex, pc, att, password,
          ret, path, seen, fetchSeqs, outs, logged, slept, retry, begun, lastGen, repl, dflt,
          ctxDone, two, opts>>

-----------------------------------------------------------------------------
(* Bounds of the model *)

NumCallers == 2
MaxCalls == 2
MaxTime == 2
MaxLife == 3
MaxClock == 17
MaxGen == 2
MaxOpts == 2

(* Program constants *)

StandardAuth == 0
AWSAuth == 1
GCPAuth == 2
AzureAuth == 3
\* AuthMethod(99) of Test_Config_validate: a value outside the enumeration
BadAuth == 99

\* faulty variant: one attempt too many
AttemptsOffByOne == 3 + 1
\* retry.Attempts(3)
Attempts == 3
\* faulty variant: the token is held for its whole 15-minute lifetime
AWSValidityFull == 14 + 1
\* time.Now().Add(14 * time.Minute)
AWSValidity == 14
\* faulty variant: a margin of two minutes
AzureMarginTwo == 1 + 1
\* token.ExpiresOn.Add(-1 * time.Minute)
AzureMargin == 1

Callers == 1..NumCallers
Procs == 0..NumCallers

Nil == "nil"
NilToken == [id |-> 0, exp |-> 0, empty |-> FALSE]
OrigPassword == 0

\* what a provider reports with a token: its lifetime in minutes from the call;
\* NoExpiry is the zero Expiry of an oauth2.Token, EmptyAccess an oauth2.Token
\* whose AccessToken is "" (and whose Expiry is zero), as oauth2.Token{}
NoExpiry == 0 - 1
EmptyAccess == 0 - 2

-----------------------------------------------------------------------------
(* Config and its validation *)

ConnStrings == {"", "postgres://user:oldp/mydb", "postgres://user@host:5432/db",
                "user=foo dbname=bar"}

\* pgx.ParseConfig / url.Parse accept the string
Parses(s) == s \in {"postgres://user@host:5432/db", "user=foo dbname=bar"}

\* a *aws.Config: the nil pointer, or a struct with its Region and Credentials
NilAWSConfig == [isNil |-> TRUE, Region |-> "", Credentials |-> Nil]
AWSConfigs == {NilAWSConfig} \cup {[isNil |-> FALSE, Region |-> r, Credentials |-> c] :
                                       r \in {"", "us-west-2"}, c \in {Nil, "creds"}}
\* an azcore.TokenCredential: the nil interface or a credential
AzureCredss == {Nil, "creds"}
\* a *google.Credentials: the nil pointer, or a struct with its TokenSource
NilGoogleCreds == [isNil |-> TRUE, TokenSource |-> Nil]
GoogleCredss == {NilGoogleCreds} \cup {[isNil |-> FALSE, TokenSource |-> t] : t \in {Nil, "ts"}}

Configs == [connString : ConnStrings, logger : {Nil, "logger"},
            authMethod : {StandardAuth, AWSAuth, GCPAuth, AzureAuth, BadAuth},
            awsConfig : AWSConfigs, azureCreds : AzureCredss, googleCreds : GoogleCredss]

\* faulty variant: the region is not checked
validateAWSConfigNoRegion(awsConfig) ==
    IF awsConfig.isNil THEN "aws config is required"
    ELSE IF awsConfig.Credentials = Nil THEN "aws credentials are required"
    ELSE Nil

validateAWSConfig(awsConfig) ==
    IF awsConfig.isNil THEN "aws config is required"
    ELSE IF awsConfig.Region = "" THEN "aws region is required"
    ELSE IF awsConfig.Credentials = Nil THEN "aws credentials are required"
    ELSE Nil

validateAzureConfig(creds) ==
    IF creds = Nil THEN "azure credentials are required" ELSE Nil

validateGCPConfig(creds) ==
    IF creds.isNil THEN "gcp credentials are required"
    ELSE IF creds.TokenSource = Nil THEN "gcp token source is required"
    ELSE Nil

\* faulty variant: the logger is checked before the connection string
validateLoggerFirst(c) ==
    IF c.logger = Nil THEN "logger cannot be nil"
    ELSE IF c.connString = "" THEN "connString cannot be empty"
    ELSE IF c.authMethod = StandardAuth THEN Nil
    ELSE IF c.authMethod = AWSAuth THEN validateAWSConfig(c.awsConfig)
    ELSE IF c.authMethod = AzureAuth THEN validateAzureConfig(c.azureCreds)
    ELSE IF c.authMethod = GCPAuth THEN validateGCPConfig(c.googleCreds)
    ELSE "unsupported authentication method"

validate(c) ==
    IF c.connString = "" THEN "connString cannot be empty"
    ELSE IF c.logger = Nil THEN "logger cannot be nil"
    ELSE IF c.authMethod = StandardAuth THEN Nil
    ELSE IF c.authMethod = AWSAuth THEN validateAWSConfig(c.awsConfig)
    ELSE IF c.authMethod = AzureAuth THEN validateAzureConfig(c.azureCreds)
    ELSE IF c.authMethod = GCPAuth THEN validateGCPConfig(c.googleCreds)
    ELSE "unsupported authentication method"

\* faulty variant: every method counts as an identity source
authConfiguredAlways(c) == TRUE

authConfigured(c) == c.authMethod # StandardAuth

-----------------------------------------------------------------------------
(* Tokens *)

\* the authToken a successful generateToken returns at instant `now` when the
\* provider reports lifetime L; exp is what the valid closure captures
generateToken(c, id, L) ==
    IF c.authMethod = AWSAuth
    THEN [id |-> id, exp |-> now + AWSValidity, empty |-> FALSE]
    ELSE IF c.authMethod = AzureAuth
    THEN [id |-> id, exp |-> (now + L) - AzureMargin, empty |-> FALSE]
    ELSE [id |-> id, exp |-> IF L \in {NoExpiry, EmptyAccess} THEN 0 ELSE now + L,
          empty |-> (L = EmptyAccess)]

\* what the provider of the Config's identity source reports to the coordinator:
\* AWS tokens live 15 minutes; an Azure ExpiresOn within the margin or beyond it;
\* a GCP token that expires, never expires, or has an empty AccessToken
Reports(c) ==
    IF c.authMethod = AWSAuth THEN {AWSValidity + 1}
    ELSE IF c.authMethod = AzureAuth THEN {AzureMargin, MaxLife}
    ELSE {MaxLife, NoExpiry, EmptyAccess}

\* authToken.valid() evaluated at instant t.  AWS and Azure: time.Now().Before(exp).
\* GCP: oauth2.Token.Valid(), which is false once Expiry - 10s is before the clock;
\* at whole minutes that is Expiry <= t; a zero Expiry never expires; an empty
\* AccessToken is never valid.
validAt(c, tok, t) ==
    IF c.authMethod = GCPAuth THEN ~tok.empty /\ (tok.exp = 0 \/ t < tok.exp)
    ELSE t < tok.exp

valid(tok) == validAt(config, tok, now)

-----------------------------------------------------------------------------
(* The retrying fetch: retry.Do(getAuthToken, Attempts(3), Delay(50ms), BackOffDelay) *)

\* getAuthToken: the outcomes one attempt can have.  The AWS branch parses the
\* connection string first and fails without a provider call when it does not
\* parse; an unknown method fails at once; otherwise generateToken calls the
\* provider, which succeeds ("ok") or fails ("fail").
getAuthToken(c) ==
    IF c.authMethod = AWSAuth /\ ~Parses(c.connString) THEN {"parse"}
    ELSE IF c.authMethod \notin {AWSAuth, GCPAuth, AzureAuth} THEN {"unsupported"}
    ELSE {"ok", "fail"}

\* the attempts of one sequence that called the provider
ProviderCalls == Cardinality({i \in 1..Len(outs) : outs[i] \in {"ok", "fail"}})

\* one attempt of the retry loop run by process p; the loop ends at the first
\* success or after the last attempt
attemptNo(p) == att[p] + 1
lastAttempt(p) == attemptNo(p) >= Attempts

\* faulty variant: the last failed attempt is not reported
OnRetrySkipsLast(p, o) == o # "ok" /\ ~lastAttempt(p)

\* retry.Do calls the OnRetry callback with the attempt's index (from 0) and its
\* error after every attempt that returned an error, the last one included
OnRetry(p, o) == o # "ok"

\* retry.Delay(50*time.Millisecond), in ms
Delay == 50

\* retry.BackOffDelay: delay << n, n the index (from 0) of the failed attempt
BackOffDelay(n) == Delay * 2^n

\* faulty variant: retry.FixedDelay
FixedDelay(n) == {Delay}

\* retry.DelayType(retry.BackOffDelay) replaces the default CombineDelay(BackOffDelay,
\* RandomDelay): the waits retry.Do can choose after the failed attempt of index n
DelayType(n) == {BackOffDelay(n)}

\* retry.Do: "if this is last attempt - don't wait"
Waits(p, o) == o # "ok" /\ ~lastAttempt(p)

\* var token *authToken; var err error: nil both.  A token built by an attempt is
\* named by the number of that attempt, 0 is the nil pointer
NoRetry == [token |-> 0, err |-> Nil]

\* token, err = getAuthToken(ctx, config) in the function retry.Do calls: both
\* locals are assigned at every attempt, and a failed attempt returns a nil token
RetryableFunc(p, o) ==
    [token |-> IF o = "ok" THEN attemptNo(p) ELSE 0,
     err |-> IF o = "ok" THEN Nil ELSE o]

\* faulty variant: the error of retry.Do is not looked at
ReturnsTokenAnyway(r) == [token |-> r.token, err |-> Nil]

\* if err != nil { return nil, fmt.Errorf(...) }; return token, nil
Returns(r) ==
    IF r.err # Nil THEN [token |-> 0, err |-> "fetching auth token"]
    ELSE [token |-> r.token, err |-> Nil]

FetchBookkeeping(p, o) ==
    /\ att' = [att EXCEPT ![p] = IF o = "ok" \/ lastAttempt(p) THEN 0 ELSE attemptNo(p)]
    /\ outs' = Append(outs, o)
    /\ logged' = IF OnRetry(p, o) THEN Append(logged, [attempt |-> att[p], error |-> o])
                  ELSE logged
    /\ IF Waits(p, o)
       THEN \E d \in DelayType(att[p]) : slept' = Append(slept, d)
       ELSE slept' = slept
    /\ retry' = RetryableFunc(p, o)

StartSequence(p) ==
    /\ att' = [att EXCEPT ![p] = 0]
    /\ fetchSeqs' = fetchSeqs + 1
    /\ outs' = <<>>
    /\ logged' = <<>>
    /\ slept' = <<>>
    /\ retry' = NoRetry

-----------------------------------------------------------------------------
(* The exported functions (process 0) *)

Entries == {"Open", "GetConnector", "NewDBPool", "BeforeConnectFn",
            "GetAuthenticatedConnString"}

\* a connection string as GetAuthenticatedConnString returns it: the text it was
\* made from and the credential in its password field (OrigPassword: the text's own)
NoString == [base |-> "", password |-> OrigPassword]
Unsubstituted(s) == [base |-> s, password |-> OrigPassword]
Substituted(s, tok) == [base |-> s, password |-> tok.id]

\* what Open, GetConnector, NewDBPool and BeforeConnectFn return on success
HandleOf(e) ==
    IF e = "Open" THEN "db"
    ELSE IF e = "GetConnector" THEN "connector"
    ELSE IF e = "NewDBPool" THEN "pool"
    ELSE "callback"

\* faulty variant: BeforeConnectFn is called before the connection string is parsed
ParseSkipped(e) == "bcvalidate"

\* the step of Open, GetConnector and NewDBPool that follows a successful
\* config.validate(): pgx.ParseConfig(config.connString)
AfterValidate(e) == "parse"

\* config.validate() at the head of Open, GetConnector, NewDBPool and
\* GetAuthenticatedConnString
EntryValidate ==
    /\ ctor = "validate"
    /\ IF validate(config) # Nil
       THEN /\ ctor' = "failed"
            /\ cerr' = "config"
            /\ UNCHANGED <<att, fetchSeqs, outs, logged, slept, retry, handle, result>>
       ELSE IF entry # "GetAuthenticatedConnString"
       THEN /\ ctor' = AfterValidate(entry)
            /\ UNCHANGED <<cerr, att, fetchSeqs, outs, logged, slept, retry, handle, result>>
       ELSE IF ~authConfigured(config)
       THEN /\ ctor' = "done"
            /\ handle' = "string"
            /\ result' = Unsubstituted(config.connString)
            /\ UNCHANGED <<cerr, att, fetchSeqs, outs, logged, slept, retry>>
       ELSE /\ ctor' = "fetch"
            /\ StartSequence(0)
            /\ UNCHANGED <<cerr, handle, result>>
    /\ UNCHANGED <<config, entry, now, token, mutex, pc, password, ret, path, seen,
                   begun, lastGen, repl, dflt,
                   ctxDone, two, opts>>

\* pgx.ParseConfig(config.connString) in Open, GetConnector and NewDBPool
EntryParse ==
    /\ ctor = "parse"
    /\ IF Parses(config.connString)
       THEN /\ ctor' = "bcvalidate"
            /\ cerr' = cerr
       ELSE /\ ctor' = "failed"
            /\ cerr' = "parse"
    /\ UNCHANGED <<config, entry, handle, result, now, token, mutex, pc, att, password, ret,
                   path, seen, fetchSeqs, outs, logged, slept, retry, begun, lastGen, repl, dflt,
                   ctxDone, two, opts>>

\* faulty variant: the first fetch is left to the first connection attempt
LazyInitialFetch(c) == FALSE

\* whether BeforeConnectFn fetches the initial token
InitialFetch(c) == authConfigured(c)

\* config.validate() at the head of BeforeConnectFn
BCValidate ==
    /\ ctor = "bcvalidate"
    /\ IF validate(config) # Nil
       THEN /\ ctor' = "failed"
            /\ cerr' = "config"
            /\ UNCHANGED <<att, fetchSeqs, outs, logged, slept, retry, handle, result>>
       ELSE IF ~InitialFetch(config)
       THEN /\ ctor' = "ready"
            /\ handle' = HandleOf(entry)
            /\ result' = result
            /\ UNCHANGED <<cerr, att, fetchSeqs, outs, logged, slept, retry>>
       ELSE /\ ctor' = "fetch"
            /\ StartSequence(0)
            /\ UNCHANGED <<cerr, handle, result>>
    /\ UNCHANGED <<config, entry, now, token, mutex, pc, password, ret, path, seen,
                   begun, lastGen, repl, dflt,
                   ctxDone, two, opts>>

\* one attempt of the initial getAuthTokenWithRetry of BeforeConnectFn
InitialAttempt(o, L) ==
    /\ ctor = "fetch"
    /\ entry # "GetAuthenticatedConnString"
    /\ o \in getAuthToken(config)
    /\ FetchBookkeeping(0, o)
    /\ IF o = "ok"
       THEN /\ token' = generateToken(config, fetchSeqs, L)
            /\ ctor' = "ready"
            /\ handle' = HandleOf(entry)
            /\ result' = result
            /\ cerr' = cerr
       ELSE IF lastAttempt(0)
       THEN /\ ctor' = "failed"
            /\ cerr' = "fetch"
            /\ UNCHANGED <<token, handle, result>>
       ELSE UNCHANGED <<token, ctor, cerr, handle, result>>
    /\ UNCHANGED <<config, entry, now, mutex, pc, password, ret, path, seen,
                   fetchSeqs, begun, lastGen, repl, dflt,
                   ctxDone, two, opts>>

\* one attempt of the getAuthTokenWithRetry of GetAuthenticatedConnString
StringAttempt(o, L) ==
    /\ ctor = "fetch"
    /\ entry = "GetAuthenticatedConnString"
    /\ o \in getAuthToken(config)
    /\ FetchBookkeeping(0, o)
    /\ IF o = "ok"
       THEN /\ token' = generateToken(config, fetchSeqs, L)
            /\ ctor' = "subst"
            /\ cerr' = cerr
       ELSE IF lastAttempt(0)
       THEN /\ ctor' = "failed"
            /\ cerr' = "fetch"
            /\ token' = token
       ELSE UNCHANGED <<token, ctor, cerr>>
    /\ UNCHANGED <<config, entry, handle, result, now, mutex, pc, password, ret, path, seen,
                   fetchSeqs, begun, lastGen, repl, dflt,
                   ctxDone, two, opts>>

\* replaceDBPassword(config.connString, token.token) in GetAuthenticatedConnString
Substitute ==
    /\ ctor = "subst"
    /\ IF Parses(config.connString)
       THEN /\ ctor' = "done"
            /\ handle' = "string"
            /\ result' = Substituted(config.connString, token)
            /\ cerr' = cerr
       ELSE /\ ctor' = "failed"
            /\ cerr' = "connstring"
            /\ handle' = handle
            /\ result' = result
    /\ UNCHANGED <<config, entry, now, token, mutex, pc, att, password, ret, path,
                   seen, fetchSeqs, outs, logged, slept, retry, begun, lastGen, repl, dflt,
                   ctxDone, two, opts>>

-----------------------------------------------------------------------------
(* The callback returned by BeforeConnectFn, run by caller c *)

\* a connection attempt invokes the callback with its own connConfig
Begin(c) ==
    /\ ctor = "ready"
    /\ pc[c] = "idle"
    /\ begun < MaxCalls
    /\ begun' = begun + 1
    /\ password' = [password EXCEPT ![c] = OrigPassword]
    /\ path' = [path EXCEPT ![c] = "none"]
    /\ seen' = [seen EXCEPT ![c] = 0]
    /\ IF authConfigured(config)
       THEN /\ pc' = [pc EXCEPT ![c] = "check"]
            /\ ret' = [ret EXCEPT ![c] = "none"]
       ELSE /\ pc' = pc
            /\ ret' = [ret EXCEPT ![c] = "nil"]
    /\ UNCHANGED <<config, entry, ctor, cerr, handle, result, now, token, mutex, att,
                   fetchSeqs, outs, logged, slept, retry, lastGen, repl, dflt,
                   ctxDone, two, opts>>

\* the mutex once the deferred tokenMutex.Unlock() of caller c has run
Unlocked(c) == IF mutex = c THEN 0 ELSE mutex

\* the invocation ends by a nil pointer dereference; the deferred Unlock runs
Panic(c) ==
    /\ pc' = [pc EXCEPT ![c] = "idle"]
    /\ ret' = [ret EXCEPT ![c] = "panic"]
    /\ mutex' = Unlocked(c)

\* faulty variant: the lock is taken whatever the first check finds
AlwaysLock(c) == "lock"

\* faulty variant: a caller that found the token invalid goes on without the lock
SkipLock(c) == IF valid(token) THEN "fastwrite" ELSE "recheck"

\* if token.valid() { ... }           (no lock held)
FirstCheckNext(c) == IF valid(token) THEN "fastwrite" ELSE "lock"

FirstCheck(c) ==
    /\ pc[c] = "check"
    /\ IF token = NilToken
       THEN /\ Panic(c)
            /\ UNCHANGED <<path, seen>>
       ELSE /\ pc' = [pc EXCEPT ![c] = FirstCheckNext(c)]
            /\ path' = [path EXCEPT ![c] = IF valid(token) THEN "fast" ELSE "slow"]
            /\ seen' = [seen EXCEPT ![c] = token.id]
            /\ UNCHANGED <<ret, mutex>>
    /\ UNCHANGED <<config, entry, ctor, cerr, handle, result, now, token, att, password,
                   fetchSeqs, outs, logged, slept, retry, begun, lastGen, repl, dflt,
                   ctxDone, two, opts>>

\* the credential of an authToken whose fields are not yet visible to the reader:
\* the zero string
ZeroCredential == 0 - 1

\* what the read of token.token on the fast path can give.  The fast path reads the
\* captured variable without the mutex, once for valid() and once more for the
\* credential.  When a refresh has replaced the token between the two reads, the
\* second read races with the refresh's unsynchronized writes (the fields of the
\* new authToken, then the variable): it gives the new token's credential, or the
\* zero string of a struct whose fields it does not see yet.
FastRead(c) == IF token.id # seen[c] THEN {token.id, ZeroCredential} ELSE {token.id}

\* connConfig.Password = token.token; return nil     (no lock held)
FastWrite(c) ==
    /\ pc[c] = "fastwrite"
    /\ IF token = NilToken
       THEN /\ Panic(c)
            /\ UNCHANGED password
       ELSE /\ \E credential \in FastRead(c) :
                   password' = [password EXCEPT ![c] = credential]
            /\ ret' = [ret EXCEPT ![c] = "nil"]
            /\ pc' = [pc EXCEPT ![c] = "idle"]
            /\ UNCHANGED mutex
    /\ UNCHANGED <<config, entry, ctor, cerr, handle, result, now, token, att, path, seen,
                   fetchSeqs, outs, logged, slept, retry, begun, lastGen, repl, dflt,
                   ctxDone, two, opts>>

\* tokenMutex.Lock(); defer tokenMutex.Unlock()
Lock(c) ==
    /\ pc[c] = "lock"
    /\ mutex = 0
    /\ mutex' = c
    /\ pc' = [pc EXCEPT ![c] = "recheck"]
    /\ UNCHANGED <<config, entry, ctor, cerr, handle, result, now, token, att, password, ret,
                   path, seen, fetchSeqs, outs, logged, slept, retry, begun, lastGen, repl, dflt,
                   ctxDone, two, opts>>

\* faulty variant: no second check under the lock
RefetchAlways(c) == TRUE

\* if !token.valid() { ... }          (lock held)
Refetch(c) == ~valid(token)

SecondCheck(c) ==
    /\ pc[c] = "recheck"
    /\ IF token = NilToken
       THEN /\ Panic(c)
            /\ UNCHANGED <<att, fetchSeqs, outs, logged, slept, retry>>
       ELSE IF Refetch(c)
       THEN /\ pc' = [pc EXCEPT ![c] = "fetch"]
            /\ StartSequence(c)
            /\ UNCHANGED <<ret, mutex>>
       ELSE /\ pc' = [pc EXCEPT ![c] = "write"]
            /\ UNCHANGED <<ret, mutex, att, fetchSeqs, outs, logged, slept, retry>>
    /\ UNCHANGED <<config, entry, ctor, cerr, handle, result, now, token, password, path, seen,
                   begun, lastGen, repl, dflt,
                   ctxDone, two, opts>>

\* token, err = getAuthTokenWithRetry(ctx, config): what the assignment leaves in
\* the captured variable when the sequence has failed (the function returns nil)
TokenAfterFailure == NilToken

\* faulty variant: the stale token's credential is written before the error is returned
StalePassword(c) == seen[c]

\* connConfig.Password when the callback returns the refresh error
PasswordAfterFailure(c) == password[c]

\* what the callback returns when the refresh has failed
ReturnAfterFailure == "err"

\* one attempt of the refresh; at the end of the sequence its result is assigned
RefreshAttempt(c, o, L) ==
    /\ pc[c] = "fetch"
    /\ o \in getAuthToken(config)
    /\ FetchBookkeeping(c, o)
    /\ IF o = "ok"
       THEN /\ token' = generateToken(config, fetchSeqs, L)
            /\ pc' = [pc EXCEPT ![c] = "write"]
            /\ UNCHANGED <<ret, mutex, password>>
       ELSE IF lastAttempt(c)
       THEN /\ token' = TokenAfterFailure
            /\ ret' = [ret EXCEPT ![c] = ReturnAfterFailure]
            /\ password' = [password EXCEPT ![c] = PasswordAfterFailure(c)]
            /\ mutex' = Unlocked(c)
            /\ pc' = [pc EXCEPT ![c] = "idle"]
       ELSE UNCHANGED <<token, pc, ret, mutex, password>>
    /\ UNCHANGED <<config, entry, ctor, cerr, handle, result, now, path, seen, fetchSeqs,
                   begun, lastGen, repl, dflt,
                   ctxDone, two, opts>>

\* connConfig.Password = token.token; return nil; the deferred Unlock runs
Write(c) ==
    /\ pc[c] = "write"
    /\ password' = [password EXCEPT ![c] = token.id]
    /\ ret' = [ret EXCEPT ![c] = "nil"]
    /\ mutex' = Unlocked(c)
    /\ pc' = [pc EXCEPT ![c] = "idle"]
    /\ UNCHANGED <<config, entry, ctor, cerr, handle, result, now, token, att, path, seen,
                   fetchSeqs, outs, logged, slept, retry, begun, lastGen, repl, dflt,
                   ctxDone, two, opts>>

\* the callback of the earlier version of BeforeConnectFn starts with
\* tokenMutex.Lock(); defer tokenMutex.Unlock(): there is no check before the lock,
\* and what follows (if !token.valid() { refresh }; config.Password = token.token)
\* is the code Lock, SecondCheck, RefreshAttempt and Write model
EarlierBegin(c) ==
    /\ ctor = "ready"
    /\ pc[c] = "idle"
    /\ begun < MaxCalls
    /\ begun' = begun + 1
    /\ password' = [password EXCEPT ![c] = OrigPassword]
    /\ path' = [path EXCEPT ![c] = "none"]
    /\ seen' = [seen EXCEPT ![c] = 0]
    /\ IF authConfigured(config)
       THEN /\ pc' = [pc EXCEPT ![c] = "lock"]
            /\ ret' = [ret EXCEPT ![c] = "none"]
       ELSE /\ pc' = pc
            /\ ret' = [ret EXCEPT ![c] = "nil"]
    /\ UNCHANGED <<config, entry, ctor, cerr, handle, result, now, token, mutex, att,
                   fetchSeqs, outs, logged, slept, retry, lastGen, repl, dflt,
                   ctxDone, two, opts>>

\* the wall clock advances by a minute
Tick ==
    /\ now < MaxTime
    /\ now' = now + 1
    /\ UNCHANGED <<config, entry, ctor, cerr, handle, result, token, mutex, pc, att, password,
                   ret, path, seen, fetchSeqs, outs, logged, slept, retry, begun, lastGen, repl, dflt,
                   ctxDone, two, opts>>

\* the wall clock advances to the instant the held token's valid() turns false
Expire ==
    /\ token # NilToken
    /\ now < token.exp
    /\ now' = token.exp
    /\ UNCHANGED <<config, entry, ctor, cerr, handle, result, token, mutex, pc, att, password,
                   ret, path, seen, fetchSeqs, outs, logged, slept, retry, begun, lastGen, repl, dflt,
                   ctxDone, two, opts>>

-----------------------------------------------------------------------------
(* replaceDBPassword.  A string is the sequence of its characters. *)

Letters == {"p", "o", "s", "t", "g", "r", "e", "q", "l", "u", "h", "m", "n", "w", "k", "v", "x",
            "a", "d"}
Digits == {"0", "2", "3", "4", "5", "7"}
\* the upper-case hexadecimal digits that url.QueryEscape writes
HexLetters == {"A", "B", "D", "F"}

\* the two hexadecimal digits of each character that an escape can stand for
Hex ==
    (" " :> <<"2", "0">>) @@ ("#" :> <<"2", "3">>) @@ ("%" :> <<"2", "5">>) @@
    ("'" :> <<"2", "7">>) @@ ("+" :> <<"2", "B">>) @@ ("/" :> <<"2", "F">>) @@
    (":" :> <<"3", "A">>) @@ ("=" :> <<"3", "D">>) @@ ("?" :> <<"3", "F">>) @@
    ("@" :> <<"4", "0">>) @@ ("&" :> <<"2", "6">>)

\* strings.HasPrefix
HasPrefix(s, prefix) == Len(s) >= Len(prefix) /\ SubSeq(s, 1, Len(prefix)) = prefix

\* strings.Index and strings.LastIndex for a separator of one character, counted
\* from 1; 0 when the separator is absent
Index(s, sep) ==
    IF \E i \in 1..Len(s) : s[i] = sep
    THEN CHOOSE i \in 1..Len(s) : s[i] = sep /\ \A j \in 1..(i - 1) : s[j] # sep
    ELSE 0

LastIndex(s, sep) ==
    IF \E i \in 1..Len(s) : s[i] = sep
    THEN CHOOSE i \in 1..Len(s) : s[i] = sep /\ \A j \in (i + 1)..Len(s) : s[j] # sep
    ELSE 0

\* s[:i-1] and s[i+1:] around the character at position i
Upto(s, i) == SubSeq(s, 1, i - 1)
From(s, i) == SubSeq(s, i + 1, Len(s))

\* strings.Split(s, " ")
RECURSIVE Split(_)
Split(s) ==
    IF Index(s, " ") = 0 THEN <<s>>
    ELSE <<Upto(s, Index(s, " "))>> \o Split(From(s, Index(s, " ")))

\* strings.Join(parts, " ")
RECURSIVE Join(_)
Join(parts) ==
    IF parts = <<>> THEN <<>>
    ELSE IF Len(parts) = 1 THEN parts[1]
    ELSE parts[1] \o <<" ">> \o Join(Tail(parts))

\* strings.ReplaceAll(s, "'", "''")
RECURSIVE ReplaceAll(_)
ReplaceAll(s) ==
    IF s = <<>> THEN <<>>
    ELSE (IF Head(s) = "'" THEN <<"'", "'">> ELSE <<Head(s)>>) \o ReplaceAll(Tail(s))

\* url.QueryEscape: letters, digits and - _ . ~ are kept, a space becomes +, every
\* other character becomes % and its two hexadecimal digits
RECURSIVE QueryEscape(_)
QueryEscape(s) ==
    IF s = <<>> THEN <<>>
    ELSE (IF Head(s) \in Letters \cup Digits \cup HexLetters THEN <<Head(s)>>
          ELSE IF Head(s) = " " THEN <<"+">>
          ELSE <<"%">> \o Hex[Head(s)]) \o QueryEscape(Tail(s))

\* net/url unescape for user names, passwords, paths and fragments: %XX becomes
\* the character it stands for, a % not followed by two hexadecimal digits is an
\* error, every other character (a + included) is kept
RECURSIVE unescape(_)
unescape(s) ==
    IF s = <<>> THEN [ok |-> TRUE, s |-> <<>>]
    ELSE IF Head(s) = "%"
    THEN IF Len(s) >= 3 /\ \E c \in DOMAIN Hex : Hex[c] = SubSeq(s, 2, 3)
         THEN LET c == CHOOSE c \in DOMAIN Hex : Hex[c] = SubSeq(s, 2, 3)
                  r == unescape(SubSeq(s, 4, Len(s)))
              IN  [ok |-> r.ok, s |-> <<c>> \o r.s]
         ELSE [ok |-> FALSE, s |-> <<>>]
    ELSE LET r == unescape(Tail(s))
         IN  [ok |-> r.ok, s |-> <<Head(s)>> \o r.s]

\* faulty variant: whatever follows the last colon of the host is taken as a port
anyPort(colonPort) == TRUE

\* net/url validOptionalPort: empty, or a colon followed by digits only
validOptionalPort(colonPort) ==
    \/ colonPort = <<>>
    \/ /\ colonPort[1] = ":"
       /\ \A i \in 2..Len(colonPort) : colonPort[i] \in Digits

\* net/url parseHost (no IPv6 literal): the port after the last colon must be
\* valid, and the host may hold neither a space nor an escape
parseHost(host) ==
    /\ LastIndex(host, ":") # 0 =>
           validOptionalPort(SubSeq(host, LastIndex(host, ":"), Len(host)))
    /\ \A i \in 1..Len(host) : host[i] \notin {" ", "%"}

\* net/url validUserinfo
validUserinfo(s) == \A i \in 1..Len(s) : s[i] \notin {" ", "/", "?", "#"}

NoURL == [ok |-> FALSE, Scheme |-> <<>>, hasUser |-> FALSE, Username |-> <<>>,
          Password |-> <<>>, Host |-> <<>>, Path |-> <<>>, RawQuery |-> <<>>,
          Fragment |-> <<>>]

\* strings.Cut for a separator of one character
Cut(s, sep) ==
    [before |-> IF Index(s, sep) = 0 THEN s ELSE Upto(s, Index(s, sep)),
     after |-> IF Index(s, sep) = 0 THEN <<>> ELSE From(s, Index(s, sep)),
     found |-> Index(s, sep) # 0]

\* net/url getScheme: the letters before the first colon, and what follows it
getScheme(rawURL) ==
    [ok |-> /\ Index(rawURL, ":") > 1
            /\ \A i \in 1..(Index(rawURL, ":") - 1) : rawURL[i] \in Letters,
     scheme |-> Upto(rawURL, Index(rawURL, ":")),
     rest |-> From(rawURL, Index(rawURL, ":"))]

\* net/url parseAuthority: the user information ends at the last @ of the
\* authority and its password begins at its first colon; both are unescaped
parseAuthority(authority) ==
    LET i == LastIndex(authority, "@")
        host == IF i = 0 THEN authority ELSE From(authority, i)
        userinfo == IF i = 0 THEN <<>> ELSE Upto(authority, i)
        username == unescape(Cut(userinfo, ":").before)
        passwd == unescape(Cut(userinfo, ":").after)
    IN  [ok |-> parseHost(host) /\ validUserinfo(userinfo) /\ username.ok /\ passwd.ok,
         hasUser |-> i # 0, Username |-> username.s, Password |-> passwd.s,
         Host |-> host]

\* net/url parse of a string that begins with a scheme and "//": the query is
\* cut at the first ?, the authority ends at the first /, the path is unescaped
parse(rawURL) ==
    LET rest == Cut(getScheme(rawURL).rest, "?").before
        afterSlashes == SubSeq(rest, 3, Len(rest))
        p == Index(afterSlashes, "/")
        auth == parseAuthority(IF p = 0 THEN afterSlashes ELSE Upto(afterSlashes, p))
        upath == unescape(IF p = 0 THEN <<>> ELSE SubSeq(afterSlashes, p, Len(afterSlashes)))
    IN  IF getScheme(rawURL).ok /\ HasPrefix(rest, <<"/", "/">>) /\ auth.ok /\ upath.ok
        THEN [ok |-> TRUE, Scheme |-> getScheme(rawURL).scheme, hasUser |-> auth.hasUser,
              Username |-> auth.Username, Password |-> auth.Password, Host |-> auth.Host,
              Path |-> upath.s, RawQuery |-> Cut(getScheme(rawURL).rest, "?").after,
              Fragment |-> <<>>]
        ELSE NoURL

\* url.Parse: the fragment is cut at the first # and unescaped, the rest is parsed
Parse(rawURL) ==
    LET url == parse(Cut(rawURL, "#").before)
        fragment == unescape(Cut(rawURL, "#").after)
    IN  IF url.ok /\ fragment.ok THEN [url EXCEPT !.Fragment = fragment.s] ELSE NoURL

\* fmt.Sprintf("password='%s'", escapedPassword)
PasswordField(escapedPassword) ==
    <<"p", "a", "s", "s", "w", "o", "r", "d", "=", "'">> \o escapedPassword \o <<"'">>

PasswordPrefix == <<"p", "a", "s", "s", "w", "o", "r", "d", "=">>

\* the statements of replaceDBPasswordURL that follow url.Parse: the URL is written
\* again from its parsed parts, user name and new password query-escaped
dbURLOf(u, newPassword) ==
    u.Scheme \o <<":", "/", "/">> \o QueryEscape(IF u.hasUser THEN u.Username ELSE <<>>)
        \o <<":">> \o QueryEscape(newPassword) \o <<"@">> \o u.Host \o u.Path
        \o (IF u.RawQuery # <<>> THEN <<"?">> \o u.RawQuery ELSE <<>>)
        \o (IF u.Fragment # <<>> THEN <<"#">> \o u.Fragment ELSE <<>>)

replaceDBPasswordURL(databaseURL, newPassword) ==
    IF ~Parse(databaseURL).ok THEN [s |-> <<>>, err |-> "failed to parse connection URL"]
    ELSE [s |-> dbURLOf(Parse(databaseURL), newPassword), err |-> Nil]

replaceDBPasswordDSN(connStr, newPassword) ==
    LET parts == Split(connStr)
        escapedPassword == ReplaceAll(newPassword)
        passwordFound == \E i \in 1..Len(parts) : HasPrefix(parts[i], PasswordPrefix)
        replaced == [i \in 1..Len(parts) |->
                        IF HasPrefix(parts[i], PasswordPrefix)
                        THEN PasswordField(escapedPassword) ELSE parts[i]]
        joined == IF passwordFound THEN replaced
                  ELSE Append(replaced, PasswordField(escapedPassword))
    IN  Join(joined)

PostgresScheme == <<"p", "o", "s", "t", "g", "r", "e", "s", ":", "/", "/">>
PostgresqlScheme == <<"p", "o", "s", "t", "g", "r", "e", "s", "q", "l", ":", "/", "/">>

replaceDBPassword(connString, newPassword) ==
    IF HasPrefix(connString, PostgresScheme) \/ HasPrefix(connString, PostgresqlScheme)
    THEN IF replaceDBPasswordURL(connString, newPassword).err # Nil
         THEN [s |-> <<>>, err |-> "preparing database connection url with auth token"]
         ELSE replaceDBPasswordURL(connString, newPassword)
    ELSE [s |-> replaceDBPasswordDSN(connString, newPassword), err |-> Nil]

\* strings.TrimLeft and strings.Trim for the space
RECURSIVE TrimLeft(_)
TrimLeft(s) == IF s # <<>> /\ Head(s) = " " THEN TrimLeft(Tail(s)) ELSE s

RECURSIVE TrimRight(_)
TrimRight(s) ==
    IF s # <<>> /\ s[Len(s)] = " " THEN TrimRight(SubSeq(s, 1, Len(s) - 1)) ELSE s

Trim(s) == TrimLeft(TrimRight(s))

\* the value at the head of s as the reader of a keyword/value string (pgx
\* ParseConfig, which the handles are opened with) takes it, and what follows it:
\* an unquoted value ends at the next space, a quoted one at the next single
\* quote, and a quoted value without a closing quote is an error
ValueAt(s) ==
    IF s = <<>> THEN [ok |-> TRUE, val |-> <<>>, rest |-> <<>>]
    ELSE IF Head(s) # "'"
    THEN [ok |-> TRUE, val |-> Cut(s, " ").before, rest |-> Cut(s, " ").after]
    ELSE [ok |-> Cut(Tail(s), "'").found, val |-> Cut(Tail(s), "'").before,
          rest |-> Cut(Tail(s), "'").after]

\* the settings that reader finds in s, in their order: the keyword is what
\* stands before the next equals sign, spaces around it and after the equals sign
\* dropped; a text without an equals sign or an empty keyword is an error
RECURSIVE Settings(_)
SettingsFrom(key, v) ==
    IF ~v.ok \/ ~Settings(v.rest).ok THEN [ok |-> FALSE, list |-> <<>>]
    ELSE [ok |-> TRUE, list |-> <<[key |-> key, val |-> v.val]>> \o Settings(v.rest).list]

Settings(s) ==
    IF s = <<>> THEN [ok |-> TRUE, list |-> <<>>]
    ELSE IF Index(s, "=") = 0 \/ Trim(Upto(s, Index(s, "="))) = <<>>
    THEN [ok |-> FALSE, list |-> <<>>]
    ELSE SettingsFrom(Trim(Upto(s, Index(s, "="))), ValueAt(TrimLeft(From(s, Index(s, "=")))))

\* the connection strings replaceDBPassword is called with: URLs put together from
\* a scheme, user information, a host, a path, a query and a fragment, and
\* keyword/value strings put together from fields separated by one space
Schemes == {PostgresScheme, PostgresqlScheme}
UserInfos == {<<>>, <<"u", "@">>, <<"u", ":", "@">>, <<"u", ":", "o", "@">>,
              <<"u", "%", "2", "0", "r", ":", "o", "@">>,
              <<"u", ":", "o", "%", "4", "0", "@">>}
Hosts == {<<"h">>, <<"h", ":", "5">>, <<"h", ":", "x">>}
Paths == {<<>>, <<"/", "m">>, <<"/", "m", "%", "2", "0", "n">>,
          <<"/", "m", "%", "3", "F", "n">>}
Queries == {<<>>, <<"?", "k", "=", "v">>, <<"?", "k", "=", "v", "%", "2", "0", "w", "&", "x", "=", "v">>}
Fragments == {<<>>, <<"#", "m">>}

URLInputs ==
    {[kind |-> "url", scheme |-> sc, user |-> us, host |-> ho, path |-> pa, query |-> qu,
      fragment |-> fr, fields |-> <<>>] :
        sc \in Schemes, us \in UserInfos, ho \in Hosts, pa \in Paths, qu \in Queries,
        fr \in Fragments}

UserField == <<"u", "s", "r", "=", "m">>
DBField == <<"h", "o", "s", "t", "=", "h">>
OldPasswordField == PasswordPrefix \o <<"o">>
QuotedPasswordField == PasswordPrefix \o <<"'", "o", " ", "x", "'">>
OtherPasswordField == <<"s", "s", "l">> \o PasswordPrefix \o <<"o">>

\* password = o, written with spaces around the equals sign: three parts for Split
PasswordWord == <<"p", "a", "s", "s", "w", "o", "r", "d">>
EqualsSign == <<"=">>
OldValue == <<"o">>

FieldLists == {<<UserField>>, <<UserField, DBField>>, <<OldPasswordField>>,
               <<UserField, OldPasswordField, DBField>>,
               <<UserField, DBField, OldPasswordField>>,
               <<UserField, OtherPasswordField>>,
               <<UserField, QuotedPasswordField, DBField>>,
               <<UserField, PasswordWord, EqualsSign, OldValue>>,
               <<OldPasswordField, UserField, OldPasswordField>>}

DSNInputs ==
    {[kind |-> "dsn", scheme |-> <<>>, user |-> <<>>, host |-> <<>>, path |-> <<>>,
      query |-> <<>>, fragment |-> <<>>, fields |-> f] : f \in FieldLists}

\* the text of an input
Text(in) ==
    IF in.kind = "url"
    THEN in.scheme \o in.user \o in.host \o in.path \o in.query \o in.fragment
    ELSE Join(in.fields)

NewPasswords == {<<"n">>, <<"n", "'", "w">>, <<"n", "@", "w", "&", "x">>, <<"n", " ", "w">>,
                 <<"+", ":", "/", "%">>}

NoReplace == [in |-> [kind |-> "none", scheme |-> <<>>, user |-> <<>>, host |-> <<>>,
                      path |-> <<>>, query |-> <<>>, fragment |-> <<>>, fields |-> <<>>],
              connString |-> <<>>, newPassword |-> <<>>, st |-> "none",
              s |-> <<>>, err |-> Nil]

\* replaceDBPassword(connString, newPassword) returns
Replace ==
    /\ repl.st = "call"
    /\ \E r \in {replaceDBPassword(repl.connString, repl.newPassword)} :
           repl' = [repl EXCEPT !.st = "done", !.s = r.s, !.err = r.err]
    /\ UNCHANGED <<config, entry, ctor, cerr, handle, result, now, token, mutex, pc, att,
                   password, ret, path, seen, fetchSeqs, outs, logged, slept, retry, begun, lastGen, dflt,
                   ctxDone, two, opts>>

-----------------------------------------------------------------------------
(* DefaultConfig and GetAuthMode *)

\* faulty variant: the GCP flag is looked at before the AWS flag
GetAuthModeGCPFirst(useAWSIAMAuth, useGCPAuth, useAzureAuth) ==
    IF useGCPAuth THEN GCPAuth
    ELSE IF useAWSIAMAuth THEN AWSAuth
    ELSE IF useAzureAuth THEN AzureAuth
    ELSE StandardAuth

\* GetAuthMode: a switch whose cases are tried in the order written
GetAuthMode(useAWSIAMAuth, useGCPAuth, useAzureAuth) ==
    IF useAWSIAMAuth THEN AWSAuth
    ELSE IF useGCPAuth THEN GCPAuth
    ELSE IF useAzureAuth THEN AzureAuth
    ELSE StandardAuth

\* DefaultAuthConfigOptions
DefaultAuthConfigOptions ==
    [UseAWSIAM : BOOLEAN, UseGCPDefaultCredentials : BOOLEAN, UseAzureMSI : BOOLEAN,
     AWSDBRegion : {"", "us-west-2"}, AzureClientID : {"", "client"}]

\* Config{}: the zero value DefaultConfig returns beside an error
ZeroConfig ==
    [connString |-> "", logger |-> Nil, authMethod |-> StandardAuth,
     awsConfig |-> NilAWSConfig, azureCreds |-> Nil, googleCreds |-> NilGoogleCreds]

NoDefault ==
    [dbURL |-> "", logger |-> Nil,
     opts |-> [UseAWSIAM |-> FALSE, UseGCPDefaultCredentials |-> FALSE,
               UseAzureMSI |-> FALSE, AWSDBRegion |-> "", AzureClientID |-> ""],
     st |-> "none", authMode |-> StandardAuth, err |-> Nil]

\* the first statement of DefaultConfig: authMode := GetAuthMode(...)
DefaultMode ==
    /\ dflt.st = "call"
    /\ dflt' = [dflt EXCEPT !.st = "mode",
                            !.authMode = GetAuthMode(dflt.opts.UseAWSIAM,
                                                     dflt.opts.UseGCPDefaultCredentials,
                                                     dflt.opts.UseAzureMSI)]
    /\ UNCHANGED <<config, entry, ctor, cerr, handle, result, now, token, mutex, pc, att,
                   password, ret, path, seen, fetchSeqs, outs, logged, slept, retry, begun, lastGen, repl,
                   ctxDone, two, opts>>

\* the rest of DefaultConfig: it loads the credentials of the chosen method from the
\* environment, which succeeds or not (found), and returns the Config or an error
DefaultBuild(found) ==
    /\ dflt.st = "mode"
    /\ LET authMode == dflt.authMode
           failure == IF authMode = AWSAuth /\ dflt.opts.AWSDBRegion = "" THEN "region"
                      ELSE IF authMode # StandardAuth /\ ~found THEN "credentials"
                      ELSE Nil
       IN  /\ dflt' = [dflt EXCEPT !.st = "done", !.err = failure]
           /\ config' = IF failure # Nil THEN ZeroConfig
                        ELSE [connString |-> dflt.dbURL, logger |-> dflt.logger,
                              authMethod |-> authMode,
                              awsConfig |-> IF authMode = AWSAuth
                                            THEN [isNil |-> FALSE,
                                                  Region |-> dflt.opts.AWSDBRegion,
                                                  Credentials |-> "creds"]
                                            ELSE NilAWSConfig,
                              azureCreds |-> IF authMode = AzureAuth THEN "creds" ELSE Nil,
                              googleCreds |-> IF authMode = GCPAuth
                                              THEN [isNil |-> FALSE, TokenSource |-> "ts"]
                                              ELSE NilGoogleCreds]
    /\ UNCHANGED <<entry, ctor, cerr, handle, result, now, token, mutex, pc, att,
                   password, ret, path, seen, fetchSeqs, outs, logged, slept, retry, begun, lastGen, repl,
                   ctxDone, two, opts>>

-----------------------------------------------------------------------------
(* The coordinator: one BeforeConnectFn call and the callers of its callback *)

\* a Config as NewConfig builds it with the option of one identity source
GoodConfig(m) ==
    [connString |-> "postgres://user@host:5432/db", logger |-> "logger", authMethod |-> m,
     awsConfig |-> IF m = AWSAuth
                   THEN [isNil |-> FALSE, Region |-> "us-west-2", Credentials |-> "creds"]
                   ELSE NilAWSConfig,
     azureCreds |-> IF m = AzureAuth THEN "creds" ELSE Nil,
     googleCreds |-> IF m = GCPAuth THEN [isNil |-> FALSE, TokenSource |-> "ts"]
                     ELSE NilGoogleCreds]

CoordinatorConfigs ==
    {GoodConfig(m) : m \in {StandardAuth, AWSAuth, GCPAuth, AzureAuth}}
    \cup {[GoodConfig(AzureAuth) EXCEPT !.azureCreds = Nil]}

-----------------------------------------------------------------------------
(* Two coordinators: two BeforeConnectFn calls in one process *)

Coordinators == {1, 2}

\* faulty variant: token and tokenMutex are package-level variables
PackageLevel(k) == 1

\* where the callback of the k-th BeforeConnectFn call keeps token and tokenMutex:
\* in local variables of that call, captured by the closure it returns
Locals(k) == k

\* the locals of one call: token, tokenMutex (0: free, else the call whose callback
\* holds it) and, as history, the number of provider calls made for them
NoLocals == [token |-> NilToken, mutex |-> 0, calls |-> 0]

\* one call and the connection attempt that runs its callback
NoRun == [st |-> "call", pc |-> "idle", att |-> 0, begun |-> 0, password |-> OrigPassword,
          ret |-> "none"]

NoTwo == [cfg |-> [k \in Coordinators |-> GoodConfig(StandardAuth)],
          loc |-> [k \in Coordinators |-> NoLocals],
          run |-> [k \in Coordinators |-> [NoRun EXCEPT !.st = "none"]]]

TwoLocals(k) == two.loc[Locals(k)]
TwoRun(k) == two.run[k]

\* a step of the k-th call or of its callback: what it leaves in its own position
\* and in the locals it uses
TwoStep(k, run, loc) ==
    /\ two' = [two EXCEPT !.run[k] = run, !.loc[Locals(k)] = loc]
    /\ UNCHANGED <<config, entry, ctor, cerr, handle, result, now, token, mutex, pc, att,
                   password, ret, path, seen, fetchSeqs, outs, logged, slept, retry, begun, lastGen, repl,
                   dflt, ctxDone, opts>>

\* one attempt of a getAuthTokenWithRetry sequence of the k-th call
TwoAttempt(k, o, L, success, failure) ==
    /\ o \in getAuthToken(two.cfg[k])
    /\ LET n == TwoLocals(k).calls + 1
           fetched == [TwoLocals(k) EXCEPT !.calls = n,
                                           !.token = generateToken(two.cfg[k], n, L)]
           failed == [TwoLocals(k) EXCEPT !.calls = n]
       IN  IF o = "ok" THEN TwoStep(k, [success EXCEPT !.att = 0], fetched)
           ELSE IF TwoRun(k).att + 1 >= Attempts
           THEN TwoStep(k, [failure EXCEPT !.att = 0],
                        IF TwoRun(k).st = "fetch" THEN failed
                        ELSE [failed EXCEPT !.token = TokenAfterFailure,
                                            !.mutex = 0])
           ELSE TwoStep(k, [TwoRun(k) EXCEPT !.att = @ + 1], failed)

\* BeforeConnectFn up to its initial fetch
TwoBeforeConnectFn(k) ==
    /\ TwoRun(k).st = "call"
    /\ TwoStep(k, [TwoRun(k) EXCEPT !.st = IF validate(two.cfg[k]) # Nil THEN "failed"
                                           ELSE IF authConfigured(two.cfg[k]) THEN "fetch"
                                           ELSE "ready"],
               TwoLocals(k))

\* one attempt of the initial fetch
TwoInitialAttempt(k, o, L) ==
    /\ TwoRun(k).st = "fetch"
    /\ TwoAttempt(k, o, L, [TwoRun(k) EXCEPT !.st = "ready"],
                  [TwoRun(k) EXCEPT !.st = "failed"])

\* a connection attempt invokes the callback the k-th call returned
TwoBegin(k) ==
    /\ TwoRun(k).st = "ready"
    /\ TwoRun(k).pc = "idle"
    /\ two.run[1].begun + two.run[2].begun < MaxCalls
    /\ TwoStep(k, [TwoRun(k) EXCEPT !.pc = "check", !.begun = @ + 1,
                                    !.password = OrigPassword, !.ret = "none"],
               TwoLocals(k))

TwoPanic(k) ==
    TwoStep(k, [TwoRun(k) EXCEPT !.pc = "idle", !.ret = "panic"],
            [TwoLocals(k) EXCEPT !.mutex = IF @ = k THEN 0 ELSE @])

\* if token.valid() { ... }           (no lock held)
TwoFirstCheck(k) ==
    /\ TwoRun(k).pc = "check"
    /\ IF TwoLocals(k).token = NilToken THEN TwoPanic(k)
       ELSE TwoStep(k, [TwoRun(k) EXCEPT
                            !.pc = IF validAt(two.cfg[k], TwoLocals(k).token, now)
                                   THEN "fastwrite" ELSE "lock"],
                    TwoLocals(k))

\* connConfig.Password = token.token; return nil     (no lock held)
TwoFastWrite(k) ==
    /\ TwoRun(k).pc = "fastwrite"
    /\ IF TwoLocals(k).token = NilToken THEN TwoPanic(k)
       ELSE TwoStep(k, [TwoRun(k) EXCEPT !.pc = "idle", !.ret = "nil",
                                         !.password = TwoLocals(k).token.id],
                    TwoLocals(k))

\* tokenMutex.Lock(); defer tokenMutex.Unlock()
TwoLock(k) ==
    /\ TwoRun(k).pc = "lock"
    /\ TwoLocals(k).mutex = 0
    /\ TwoStep(k, [TwoRun(k) EXCEPT !.pc = "recheck"], [TwoLocals(k) EXCEPT !.mutex = k])

\* if !token.valid() { ... }          (lock held)
TwoSecondCheck(k) ==
    /\ TwoRun(k).pc = "recheck"
    /\ IF TwoLocals(k).token = NilToken THEN TwoPanic(k)
       ELSE TwoStep(k, [TwoRun(k) EXCEPT
                            !.pc = IF ~validAt(two.cfg[k], TwoLocals(k).token, now)
                                   THEN "fetch" ELSE "write"],
                    TwoLocals(k))

\* one attempt of the refresh
TwoRefreshAttempt(k, o, L) ==
    /\ TwoRun(k).pc = "fetch"
    /\ TwoAttempt(k, o, L, [TwoRun(k) EXCEPT !.pc = "write"],
                  [TwoRun(k) EXCEPT !.pc = "idle", !.ret = ReturnAfterFailure])

\* connConfig.Password = token.token; return nil; the deferred Unlock runs
TwoWrite(k) ==
    /\ TwoRun(k).pc = "write"
    /\ TwoStep(k, [TwoRun(k) EXCEPT !.pc = "idle", !.ret = "nil",
                                    !.password = TwoLocals(k).token.id],
               [TwoLocals(k) EXCEPT !.mutex = 0])

-----------------------------------------------------------------------------
(* Initial states and specifications *)

InitCoordinator ==
    /\ opts = <<>>
    /\ cerr = "none"
    /\ handle = "none"
    /\ result = NoString
    /\ now = 1
    /\ token = NilToken
    /\ mutex = 0
    /\ pc = [c \in Callers |-> "idle"]
    /\ att = [p \in Procs |-> 0]
    /\ password = [c \in Callers |-> OrigPassword]
    /\ ret = [c \in Callers |-> "none"]
    /\ path = [c \in Callers |-> "none"]
    /\ seen = [c \in Callers |-> 0]
    /\ fetchSeqs = 0
    /\ outs = <<>>
    /\ logged = <<>>
    /\ slept = <<>>
    /\ retry = NoRetry
    /\ begun = 0
    /\ lastGen = [id |-> 0, L |-> 0, ok |-> TRUE, at |-> 0]
    /\ ctxDone = FALSE

InitState ==
    /\ InitCoordinator
    /\ repl = NoReplace
    /\ dflt = NoDefault
    /\ two = NoTwo

Init ==
    /\ entry \in {"BeforeConnectFn", "GetAuthenticatedConnString"}
    /\ ctor = IF entry = "BeforeConnectFn" THEN "bcvalidate" ELSE "validate"
    /\ config \in CoordinatorConfigs
    /\ InitState

CallerStep(c) ==
    \/ FirstCheck(c)
    \/ FastWrite(c)
    \/ Lock(c)
    \/ SecondCheck(c)
    \/ \E o \in {"ok", "fail"}, L \in Reports(config) : RefreshAttempt(c, o, L)
    \/ Write(c)

Next ==
    \/ BCValidate
    \/ \E o \in {"ok", "fail"}, L \in Reports(config) : InitialAttempt(o, L)
    \/ EntryValidate
    \/ \E o \in {"ok", "fail"}, L \in Reports(config) : StringAttempt(o, L)
    \/ Substitute
    \/ \E c \in Callers : Begin(c)
    \/ \E c \in Callers : CallerStep(c)
    \/ Tick
    \/ Expire

Spec == Init /\ [][Next]_vars

-----------------------------------------------------------------------------
(* The earlier version of BeforeConnectFn, whose callback always locks *)

EarlierStep(c) ==
    \/ Lock(c)
    \/ SecondCheck(c)
    \/ \E o \in {"ok", "fail"}, L \in Reports(config) : RefreshAttempt(c, o, L)
    \/ Write(c)

InitEarlier ==
    /\ entry = "BeforeConnectFn"
    /\ ctor = "bcvalidate"
    /\ config \in CoordinatorConfigs
    /\ InitState

NextEarlier ==
    \/ BCValidate
    \/ \E o \in {"ok", "fail"}, L \in Reports(config) : InitialAttempt(o, L)
    \/ \E c \in Callers : EarlierBegin(c)
    \/ \E c \in Callers : EarlierStep(c)
    \/ Tick
    \/ Expire

SpecEarlier == InitEarlier /\ [][NextEarlier]_vars

-----------------------------------------------------------------------------
(* GetAuthenticatedConnString called once BeforeConnectFn has returned its callback *)

\* the program goes on to call GetAuthenticatedConnString(ctx, config) with the
\* Config it gave to BeforeConnectFn, between two connection attempts
ServeCall ==
    /\ entry = "BeforeConnectFn"
    /\ ctor = "ready"
    /\ \A c \in Callers : pc[c] = "idle"
    /\ entry' = "GetAuthenticatedConnString"
    /\ ctor' = "validate"
    /\ UNCHANGED <<config, cerr, handle, result, now, token, mutex, pc, att, password, ret,
                   path, seen, fetchSeqs, outs, logged, slept, retry, begun, lastGen, repl, dflt,
                   ctxDone, two, opts>>

\* one attempt of the getAuthTokenWithRetry of GetAuthenticatedConnString; the
\* token it returns is a local of that function, which goes on to
\* replaceDBPassword(config.connString, token.token); the variable the callback
\* captured is out of its reach
ServeAttempt(o, L) ==
    /\ ctor = "fetch"
    /\ entry = "GetAuthenticatedConnString"
    /\ o \in getAuthToken(config)
    /\ FetchBookkeeping(0, o)
    /\ IF o = "ok"
       THEN IF Parses(config.connString)
            THEN /\ ctor' = "done"
                 /\ handle' = "string"
                 /\ result' = Substituted(config.connString,
                                          generateToken(config, fetchSeqs, L))
                 /\ cerr' = cerr
            ELSE /\ ctor' = "failed"
                 /\ cerr' = "connstring"
                 /\ UNCHANGED <<handle, result>>
       ELSE IF lastAttempt(0)
       THEN /\ ctor' = "failed"
            /\ cerr' = "fetch"
            /\ UNCHANGED <<handle, result>>
       ELSE UNCHANGED <<ctor, cerr, handle, result>>
    /\ UNCHANGED <<config, entry, now, token, mutex, pc, password, ret, path, seen,
                   fetchSeqs, begun, lastGen, repl, dflt,
                   ctxDone, two, opts>>

InitServe ==
    /\ entry = "BeforeConnectFn"
    /\ ctor = "bcvalidate"
    /\ config \in CoordinatorConfigs
    /\ InitState

NextServe ==
    \/ BCValidate
    \/ \E o \in {"ok", "fail"}, L \in Reports(config) : InitialAttempt(o, L)
    \/ \E c \in Callers : Begin(c)
    \/ \E c \in Callers : CallerStep(c)
    \/ Tick
    \/ Expire
    \/ ServeCall
    \/ EntryValidate
    \/ \E o \in {"ok", "fail"}, L \in Reports(config) : ServeAttempt(o, L)

SpecServe == InitServe /\ [][NextServe]_vars

-----------------------------------------------------------------------------
(* NewConfig and its options, followed by BeforeConnectFn on the Config built *)

\* hclog.NewNullLogger()
NullLogger == "null logger"

\* cfg := Config{connString: connString, logger: hclog.NewNullLogger()}: every
\* other field has its zero value
NewConfigStart(connString) ==
    [connString |-> connString, logger |-> NullLogger, authMethod |-> StandardAuth,
     awsConfig |-> NilAWSConfig, azureCreds |-> Nil, googleCreds |-> NilGoogleCreds]

\* a ConfigOpt: the function that made it and its argument (the fields of the
\* other functions are unused)
NoArgs == [kind |-> "none", logger |-> Nil, awsConfig |-> NilAWSConfig, azureCreds |-> Nil,
           googleCreds |-> NilGoogleCreds]

ConfigOpts ==
    {[NoArgs EXCEPT !.kind = "WithLogger", !.logger = l] : l \in {Nil, "logger"}}
    \cup {[NoArgs EXCEPT !.kind = "WithAWSConfig", !.awsConfig = a] : a \in AWSConfigs}
    \cup {[NoArgs EXCEPT !.kind = "WithAzureCreds", !.azureCreds = a] : a \in AzureCredss}
    \cup {[NoArgs EXCEPT !.kind = "WithGoogleCreds", !.googleCreds = g] : g \in GoogleCredss}

WithLogger(c, l) == [c EXCEPT !.logger = l]

WithAWSConfig(c, cfg) == [c EXCEPT !.authMethod = AWSAuth, !.awsConfig = cfg]

\* faulty variant: the credentials are stored, the method is left as it was
WithAzureCredsOnly(c, creds) == [c EXCEPT !.azureCreds = creds]

WithAzureCreds(c, creds) == [c EXCEPT !.authMethod = AzureAuth, !.azureCreds = creds]

WithGoogleCreds(c, creds) == [c EXCEPT !.authMethod = GCPAuth, !.googleCreds = creds]

\* opt(&cfg)
ApplyOpt(c, opt) ==
    IF opt.kind = "WithLogger" THEN WithLogger(c, opt.logger)
    ELSE IF opt.kind = "WithAWSConfig" THEN WithAWSConfig(c, opt.awsConfig)
    ELSE IF opt.kind = "WithAzureCreds" THEN WithAzureCreds(c, opt.azureCreds)
    ELSE WithGoogleCreds(c, opt.googleCreds)

\* the tokenGenerator getAuthToken builds: the struct of the Config's method, which
\* holds the parameter of that method and of no other
tokenGeneratorOf(c) ==
    IF c.authMethod = AWSAuth
    THEN [NoArgs EXCEPT !.kind = "awsTokenConfig", !.awsConfig = c.awsConfig]
    ELSE IF c.authMethod = GCPAuth
    THEN [NoArgs EXCEPT !.kind = "gcpTokenConfig", !.googleCreds = c.googleCreds]
    ELSE IF c.authMethod = AzureAuth
    THEN [NoArgs EXCEPT !.kind = "azureTokenConfig", !.azureCreds = c.azureCreds]
    ELSE NoArgs

\* one turn of the loop of NewConfig over its options
NewConfigOpt(opt) ==
    /\ entry = "NewConfig"
    /\ ctor = "options"
    /\ Len(opts) < MaxOpts
    /\ config' = ApplyOpt(config, opt)
    /\ opts' = Append(opts, opt)
    /\ UNCHANGED <<entry, ctor, cerr, handle, result, now, token, mutex, pc, att, password,
                   ret, path, seen, fetchSeqs, outs, logged, slept, retry, begun, lastGen, repl, dflt,
                   ctxDone, two>>

\* NewConfig returns cfg, and the program calls BeforeConnectFn(ctx, cfg)
NewConfigReturn ==
    /\ entry = "NewConfig"
    /\ ctor = "options"
    /\ entry' = "BeforeConnectFn"
    /\ ctor' = "bcvalidate"
    /\ UNCHANGED <<config, cerr, handle, result, now, token, mutex, pc, att, password,
                   ret, path, seen, fetchSeqs, outs, logged, slept, retry, begun, lastGen, repl, dflt,
                   ctxDone, two, opts>>

InitConfig ==
    /\ entry = "NewConfig"
    /\ ctor = "options"
    /\ config \in {NewConfigStart(s) : s \in {"postgres://user@host:5432/db"}}
    /\ InitState

NextConfig ==
    \/ \E opt \in ConfigOpts : NewConfigOpt(opt)
    \/ NewConfigReturn
    \/ BCValidate
    \/ \E o \in {"ok", "fail"}, L \in Reports(config) : InitialAttempt(o, L)

SpecConfig == InitConfig /\ [][NextConfig]_vars

-----------------------------------------------------------------------------
(* The exported functions on every Config *)

InitEntry ==
    /\ entry \in Entries
    /\ ctor = IF entry = "BeforeConnectFn" THEN "bcvalidate" ELSE "validate"
    /\ config \in Configs
    /\ InitState

AttemptOutcomes == {"ok", "fail", "parse", "unsupported"}

NextEntry ==
    \/ EntryValidate
    \/ EntryParse
    \/ BCValidate
    \/ \E o \in AttemptOutcomes, L \in Reports(config) : InitialAttempt(o, L)
    \/ \E o \in AttemptOutcomes, L \in Reports(config) : StringAttempt(o, L)
    \/ Substitute

SpecEntry == InitEntry /\ [][NextEntry]_vars

-----------------------------------------------------------------------------
(* Tokens against the clock: provider calls at arbitrary instants *)

\* every lifetime a provider may report, from an expiry at the instant of the call on
AllReports(c) ==
    IF c.authMethod = AWSAuth THEN {AWSValidity + 1}
    ELSE IF c.authMethod = AzureAuth THEN 0..MaxLife
    ELSE 0..MaxLife \cup {NoExpiry, EmptyAccess}

\* a successful generateToken at instant `now`
Generate(L) ==
    /\ fetchSeqs < MaxGen
    /\ fetchSeqs' = fetchSeqs + 1
    /\ token' = generateToken(config, fetchSeqs + 1, L)
    /\ lastGen' = [id |-> fetchSeqs + 1, L |-> L,
                   ok |-> validAt(config, generateToken(config, fetchSeqs + 1, L), now),
                   at |-> now]
    /\ UNCHANGED <<config, entry, ctor, cerr, handle, result, now, mutex, pc, att, password,
                   ret, path, seen, outs, logged, slept, retry, begun, repl, dflt,
                   ctxDone, two, opts>>

ClockTick ==
    /\ now < MaxClock
    /\ now' = now + 1
    /\ UNCHANGED <<config, entry, ctor, cerr, handle, result, token, mutex, pc, att, password,
                   ret, path, seen, fetchSeqs, outs, logged, slept, retry, begun, lastGen, repl, dflt,
                   ctxDone, two, opts>>

InitToken ==
    /\ entry = "BeforeConnectFn"
    /\ ctor = "fetch"
    /\ config \in {GoodConfig(m) : m \in {AWSAuth, GCPAuth, AzureAuth}}
    /\ InitState

NextToken ==
    \/ \E L \in AllReports(config) : Generate(L)
    \/ ClockTick

SpecToken == InitToken /\ [][NextToken]_vars

-----------------------------------------------------------------------------
(* replaceDBPassword on every input *)

InitReplace ==
    /\ entry = "GetAuthenticatedConnString"
    /\ ctor = "subst"
    /\ config = GoodConfig(AWSAuth)
    /\ InitCoordinator
    /\ dflt = NoDefault
    /\ two = NoTwo
    /\ repl \in {[in |-> i, connString |-> Text(i), newPassword |-> n, st |-> "call",
                   s |-> <<>>, err |-> Nil] : i \in URLInputs \cup DSNInputs,
                                              n \in NewPasswords}

NextReplace == Replace

SpecReplace == InitReplace /\ [][NextReplace]_vars

-----------------------------------------------------------------------------
(* DefaultConfig on every combination of its options *)

InitDefault ==
    /\ entry = "DefaultConfig"
    /\ ctor = "none"
    /\ config = ZeroConfig
    /\ InitCoordinator
    /\ repl = NoReplace
    /\ two = NoTwo
    /\ dflt \in {[dbURL |-> u, logger |-> l, opts |-> o, st |-> "call",
                   authMode |-> StandardAuth, err |-> Nil] :
                     u \in ConnStrings, l \in {Nil, "logger"}, o \in DefaultAuthConfigOptions}

NextDefault ==
    \/ DefaultMode
    \/ \E found \in BOOLEAN : DefaultBuild(found)

SpecDefault == InitDefault /\ [][NextDefault]_vars

-----------------------------------------------------------------------------
(* Cancellation of the caller's context during a fetch *)

\* the ctx given to the entry point and to the callback is cancelled while a
\* getAuthTokenWithRetry sequence runs or waits between two attempts.  retry.Do is
\* given no retry.Context option and so runs under context.Background(): neither
\* its loop nor its backoff wait looks at ctx.  fetchGCPAuthToken takes no ctx,
\* fetchAzureAuthToken uses context.Background(), and auth.BuildAuthToken of the
\* AWS SDK may succeed or fail under a cancelled ctx, so getAuthToken keeps the
\* outcomes it has under a live ctx.
Cancel ==
    /\ ~ctxDone
    /\ ctor = "fetch" \/ \E c \in Callers : pc[c] = "fetch"
    /\ ctxDone' = TRUE
    /\ UNCHANGED <<config, entry, ctor, cerr, handle, result, now, token, mutex, pc, att,
                   password, ret, path, seen, fetchSeqs, outs, logged, slept, retry, begun, lastGen, repl,
                   dflt, two, opts>>

InitCancel ==
    /\ entry \in {"BeforeConnectFn", "GetAuthenticatedConnString"}
    /\ ctor = IF entry = "BeforeConnectFn" THEN "bcvalidate" ELSE "validate"
    /\ config = GoodConfig(GCPAuth)
    /\ InitState

NextCancel ==
    \/ Next
    \/ Cancel

SpecCancel == InitCancel /\ [][NextCancel]_vars

-----------------------------------------------------------------------------
(* Two coordinators side by side *)

InitTwo ==
    /\ entry = "BeforeConnectFn"
    /\ ctor = "none"
    /\ config = GoodConfig(GCPAuth)
    /\ InitCoordinator
    /\ repl = NoReplace
    /\ dflt = NoDefault
    /\ two \in {[cfg |-> (1 :> GoodConfig(GCPAuth)) @@ (2 :> c),
                 loc |-> [k \in Coordinators |-> NoLocals],
                 run |-> [k \in Coordinators |-> NoRun]] :
                    c \in {GoodConfig(GCPAuth), GoodConfig(AzureAuth)}}

TwoNext(k) ==
    \/ TwoBeforeConnectFn(k)
    \/ \E o \in {"ok", "fail"}, L \in Reports(two.cfg[k]) : TwoInitialAttempt(k, o, L)
    \/ TwoBegin(k)
    \/ TwoFirstCheck(k)
    \/ TwoFastWrite(k)
    \/ TwoLock(k)
    \/ TwoSecondCheck(k)
    \/ \E o \in {"ok", "fail"}, L \in Reports(two.cfg[k]) : TwoRefreshAttempt(k, o, L)
    \/ TwoWrite(k)

NextTwo ==
    \/ \E k \in Coordinators : TwoNext(k)
    \/ Tick

SpecTwo == InitTwo /\ [][NextTwo]_vars

-----------------------------------------------------------------------------
(* Claims *)

Held == token # NilToken
Cloud == config.authMethod # StandardAuth
Finished(c) == pc[c] = "idle" /\ ret[c] # "none"
InFlight == ctor = "fetch" \/ \E c \in Callers : pc[c] = "fetch"

\* C1 as stated: every invocation that found the held token invalid returns nil
\* having written the credential of the one fetch sequence that followed that
\* token (no second sequence, no error).
C1_OneFetchPerExpiry ==
    \A c \in Callers :
        (Finished(c) /\ path[c] = "slow") =>
            (ret[c] = "nil" /\ password[c] = seen[c] + 1)

\* C1 amended: while the token a refresh produced is held and valid, no fetch
\* sequence has been started after the one that produced it, and every caller that
\* found its predecessor invalid has returned nil with that token's credential.
C1_SingleFetchWhileValid ==
    (Held /\ valid(token)) =>
        /\ fetchSeqs = token.id
        /\ \A c \in Callers :
              (Finished(c) /\ path[c] = "slow" /\ seen[c] + 1 = token.id) =>
                  (ret[c] = "nil" /\ password[c] = token.id)

\* two callers found the same token invalid and both wrote the refreshed credential
C1_Witness ==
    /\ Held /\ valid(token)
    /\ \E c, d \in Callers :
          /\ c # d
          /\ \A e \in {c, d} : /\ Finished(e) /\ path[e] = "slow"
                               /\ seen[e] + 1 = token.id
                               /\ password[e] = token.id

\* C2: once BeforeConnectFn has succeeded with an identity source, the held token
\* is never absent: a failed refresh leaves the expired token in place.
C2_FailedRefreshKeepsToken ==
    (ctor = "ready" /\ Cloud) => Held

\* C3: a callback invocation never ends by a crash, whatever fetch failed before it.
C3_NoCrashAfterFailure ==
    \A c \in Callers : ret[c] # "panic"

C5_GuardReleasedAndReturns ==
    /\ \A c \in Callers : (mutex = c) <=> (pc[c] \in {"recheck", "fetch", "write"})
    /\ \A c \in Callers : (Finished(c) /\ path[c] = "slow") => ret[c] \in {"nil", "err"}

\* C6: a sequence makes at most 3 attempts, only its last attempt can be a
\* success, it goes on only after a failure, it ends at the first success with
\* the token of that attempt or after the 3rd failure without a token.
C6_AtMostThreeAttempts ==
    /\ Len(outs) <= 3
    /\ \A i \in 1..Len(outs) : outs[i] = "ok" => i = Len(outs)
    /\ InFlight => (Len(outs) < 3 /\ \A i \in 1..Len(outs) : outs[i] = "fail")
    /\ (~InFlight /\ fetchSeqs > 0) =>
          (outs # <<>> /\ (outs[Len(outs)] = "ok" \/ Len(outs) = 3))
    /\ (outs # <<>> /\ outs[Len(outs)] = "ok") => (Held /\ token.id = fetchSeqs)
    /\ (outs = <<"fail", "fail", "fail">>) => ~(Held /\ token.id = fetchSeqs)

\* the provider failed twice, then succeeded, and the token of the 3rd attempt is held
C6_Witness ==
    /\ outs = <<"fail", "fail", "ok">>
    /\ Held /\ token.id = fetchSeqs

\* C7: with an identity source, an invocation that returns the refresh error has
\* left connConfig.Password as it was, and an invocation returns nil only having
\* written a token's credential.
C7_FailureLeavesPassword ==
    Cloud =>
        \A c \in Callers :
            /\ ret[c] = "err" => (password[c] = OrigPassword /\ pc[c] = "idle")
            /\ ret[c] = "nil" => password[c] # OrigPassword
            /\ (Finished(c) /\ password[c] = OrigPassword) => ret[c] \in {"err", "panic"}

\* a refresh failed after 3 attempts and the caller got the error
C7_Witness ==
    \E c \in Callers :
        /\ ret[c] = "err" /\ password[c] = OrigPassword
        /\ outs = <<"fail", "fail", "fail">>

\* C8: with an identity source and a valid Config, BeforeConnectFn has run exactly
\* one fetch sequence when it returns; if that sequence failed it returned an error
\* and no callback, so no invocation ever starts; while the initial token is the
\* valid held token no further sequence has been started.
C8_OneFetchAtConstruction ==
    (entry = "BeforeConnectFn" /\ Cloud /\ validate(config) = Nil) =>
        /\ ctor = "failed" =>
              /\ cerr = "fetch" /\ handle = "none" /\ fetchSeqs = 1
              /\ Len(outs) = 3 /\ begun = 0
        /\ (ctor = "ready" /\ begun = 0) =>
              (fetchSeqs = 1 /\ Held /\ token.id = 1 /\ handle = "callback")
        /\ (ctor = "ready" /\ Held /\ token.id = 1 /\ valid(token)) => fetchSeqs = 1
        /\ begun > 0 => ctor = "ready"

\* an invocation finished on the fast path with the initial token, no fetch since
C8_Witness ==
    /\ ctor = "ready" /\ fetchSeqs = 1 /\ Held /\ valid(token)
    /\ \E c \in Callers : Finished(c) /\ path[c] = "fast" /\ password[c] = 1

\* C9: a Config whose selected source lacks a required parameter, or whose method
\* is not one of the four, makes every exported function return a configuration
\* error with no fetch sequence started and no provider call made.
MissingParameter(c) ==
    \/ c.authMethod = AWSAuth /\ (c.awsConfig.isNil \/ c.awsConfig.Region = ""
                                   \/ c.awsConfig.Credentials = Nil)
    \/ c.authMethod = AzureAuth /\ c.azureCreds = Nil
    \/ c.authMethod = GCPAuth /\ (c.googleCreds.isNil \/ c.googleCreds.TokenSource = Nil)
    \/ c.authMethod \notin {StandardAuth, AWSAuth, GCPAuth, AzureAuth}

C9_RejectedBeforeAnyCall ==
    MissingParameter(config) =>
        /\ fetchSeqs = 0 /\ ProviderCalls = 0 /\ ~Held /\ handle = "none"
        /\ ctor \in {"validate", "bcvalidate", "failed"}
        /\ ctor = "failed" => cerr = "config"

\* NewDBPool rejected an AWS Config without a region
C9_Witness ==
    /\ entry = "NewDBPool" /\ ctor = "failed" /\ cerr = "config"
    /\ config.connString # "" /\ config.logger # Nil
    /\ config.authMethod = AWSAuth /\ ~config.awsConfig.isNil
    /\ config.awsConfig.Region = "" /\ config.awsConfig.Credentials # Nil
    /\ ProviderCalls = 0

\* C10 as stated: every token a successful generateToken returns is valid at the
\* instant of the fetch.
C10_ValidWhenFetched ==
    lastGen.id > 0 => lastGen.ok

\* C10 amended: the token is valid at the instant of the fetch for AWS always, for
\* Azure when ExpiresOn is more than a minute away, for GCP when the access token
\* is not empty and the Expiry is zero or not yet within 10 seconds.
C10_ValidWhenFetchedIfFarEnough ==
    lastGen.id > 0 =>
        ((\/ config.authMethod = AWSAuth
          \/ config.authMethod = AzureAuth /\ lastGen.L >= 2
          \/ config.authMethod = GCPAuth /\ (lastGen.L = NoExpiry \/ lastGen.L >= 1))
         <=> lastGen.ok)

\* an Azure token reported to expire two minutes after the fetch is valid at once
C10_Witness ==
    /\ lastGen.id > 0 /\ config.authMethod = AzureAuth
    /\ lastGen.L = 2 /\ lastGen.ok

\* C11: valid() is evaluated against the clock at each call: a fetched AWS token is
\* valid exactly before the fetch instant plus 14 minutes and an Azure token exactly
\* before the reported ExpiresOn minus 1 minute, so both are invalid at every
\* instant from there on; and for every source a token that is invalid stays
\* invalid as the clock advances.
C11_InvalidFromMarginOn ==
    /\ [](lastGen.id > 0 =>
            /\ config.authMethod = AWSAuth => (valid(token) <=> now < lastGen.at + 14)
            /\ config.authMethod = AzureAuth =>
                   (valid(token) <=> now < (lastGen.at + lastGen.L) - 1))
    /\ [][(token' = token /\ ~validAt(config, token, now)) =>
              ~validAt(config, token, now')]_vars

\* an AWS token fetched at instant 1 is examined 14 minutes later and is invalid
C11_Witness ==
    /\ lastGen.id > 0 /\ config.authMethod = AWSAuth
    /\ lastGen.at = 1 /\ now = 15 /\ ~valid(token)

\* C12: in every sequence each failed attempt, and nothing else, has been reported
\* to the logger with the attempt's index and its error, the 3rd failure included;
\* the caller of a failed sequence gets the one error of the whole sequence.
C12_EveryFailureLogged ==
    /\ Len(logged) = Cardinality({i \in 1..Len(outs) : outs[i] # "ok"})
    /\ \A i \in 1..Len(logged) : logged[i] = [attempt |-> i - 1, error |-> outs[i]]
    /\ (~InFlight /\ Len(outs) = 3 /\ outs[3] # "ok") =>
          /\ Len(logged) = 3
          /\ ctor = "failed" => cerr = "fetch"

\* a refresh failed three times: three reports, one error to the caller
C12_Witness ==
    /\ outs = <<"fail", "fail", "fail">> /\ Len(logged) = 3
    /\ logged[3] = [attempt |-> 2, error |-> "fail"]
    /\ \E c \in Callers : ret[c] = "err"

\* C13: an attempt that fails on the connection string or on the auth method is
\* the only attempt of its sequence: nothing is tried after it.
C13_ConfigErrorsNotRetried ==
    \A i \in 1..Len(outs) : outs[i] \in {"parse", "unsupported"} => Len(outs) = 1

\* C14: with StandardAuth no fetch sequence is ever started and no provider call
\* made; BeforeConnectFn returns a callback whose every invocation has returned nil
\* at once with connConfig.Password as the caller passed it, and
\* GetAuthenticatedConnString returns the connection string it was given.
C14_NoAuthIsNoOp ==
    (config.authMethod = StandardAuth) =>
        /\ fetchSeqs = 0 /\ ProviderCalls = 0 /\ ~Held /\ cerr = "none"
        /\ entry = "BeforeConnectFn" =>
              /\ ctor \in {"bcvalidate", "ready"}
              /\ ctor = "ready" => handle = "callback"
              /\ \A c \in Callers :
                    /\ pc[c] = "idle" /\ mutex # c
                    /\ password[c] = OrigPassword
                    /\ ret[c] \in {"none", "nil"}
              /\ Cardinality({c \in Callers : ret[c] = "nil"}) <= begun
              /\ begun > 0 => \E c \in Callers : ret[c] = "nil"
        /\ entry = "GetAuthenticatedConnString" =>
              /\ ctor \in {"validate", "done"}
              /\ ctor = "done" => result = [base |-> config.connString, password |-> 0]

\* the no-op callback has been invoked by every caller, MaxCalls times in all
C14_Witness ==
    /\ config.authMethod = StandardAuth /\ entry = "BeforeConnectFn"
    /\ begun = MaxCalls
    /\ \A c \in Callers : ret[c] = "nil" /\ password[c] = OrigPassword

\* C15: for a URL input that parses, replaceDBPassword returns without error a URL
\* whose scheme, user name, host and port, path and raw query are those of the
\* input and whose password is the new password.
C15_URLKeepsAllButPassword ==
    (repl.st = "done" /\ repl.in.kind = "url" /\ Parse(repl.connString).ok) =>
        /\ repl.err = Nil
        /\ Parse(repl.s).ok
        /\ Parse(repl.s).Scheme = Parse(repl.connString).Scheme
        /\ Parse(repl.s).Username = Parse(repl.connString).Username
        /\ Parse(repl.s).Password = repl.newPassword
        /\ Parse(repl.s).Host = Parse(repl.connString).Host
        /\ Parse(repl.s).Path = Parse(repl.connString).Path
        /\ Parse(repl.s).RawQuery = Parse(repl.connString).RawQuery

\* C16: for a keyword/value input, replaceDBPassword returns the fields of the
\* input in their order, each password field replaced by password='...' with the
\* new password's single quotes doubled, or that field appended when the input
\* has no password field.
C16_DSNFieldsKept ==
    (repl.st = "done" /\ repl.in.kind = "dsn") =>
        LET f == repl.in.fields
            new == PasswordField(ReplaceAll(repl.newPassword))
            isPassword(i) == HasPrefix(f[i], PasswordPrefix)
        IN  /\ repl.err = Nil
            /\ repl.s = Join(IF \E i \in 1..Len(f) : isPassword(i)
                             THEN [i \in 1..Len(f) |-> IF isPassword(i) THEN new ELSE f[i]]
                             ELSE Append(f, new))

\* C17: replaceDBPassword returns an error exactly for the URL inputs whose
\* host and port segment cannot be parsed, and then returns the empty string; a
\* keyword/value input never gives an error.
C17_ErrorOnlyForBadURL ==
    repl.st = "done" =>
        /\ repl.err # Nil <=> (repl.in.kind = "url" /\ repl.in.host = <<"h", ":", "x">>)
        /\ repl.err # Nil => repl.s = <<>>
        /\ repl.err = Nil => repl.s # <<>>
        /\ repl.in.kind = "dsn" => repl.err = Nil

\* a URL without user information whose port is not a number was refused
C17_Witness ==
    /\ repl.st = "done" /\ repl.in.kind = "url"
    /\ repl.in.user = <<>> /\ repl.in.host = <<"h", ":", "x">>
    /\ repl.err # Nil /\ repl.s = <<>>

\* C18: Config.validate returns nil exactly when the connection string is not
\* empty, the logger is not nil, the method is one of the four and the parameters
\* of that method are present; otherwise it returns the error of the first check
\* that fails, in the order connection string, logger, method; and an exported
\* function has gone past its validation exactly when validate returned nil.
C18_ValidateFirstFailingCheck ==
    LET c == config
        known == c.authMethod \in {StandardAuth, AWSAuth, GCPAuth, AzureAuth}
        accepted == /\ c.connString # "" /\ c.logger # Nil /\ known
                    /\ ~MissingParameter(c)
        validating == ctor = "validate" \/ (entry = "BeforeConnectFn" /\ ctor = "bcvalidate")
    IN  /\ validate(c) = Nil <=> accepted
        /\ c.connString = "" => validate(c) = "connString cannot be empty"
        /\ (c.connString # "" /\ c.logger = Nil) => validate(c) = "logger cannot be nil"
        /\ (c.connString # "" /\ c.logger # Nil) =>
              /\ ~known => validate(c) = "unsupported authentication method"
              /\ (c.authMethod = AWSAuth /\ c.awsConfig.isNil) =>
                     validate(c) = "aws config is required"
              /\ (c.authMethod = AWSAuth /\ ~c.awsConfig.isNil /\ c.awsConfig.Region = "") =>
                     validate(c) = "aws region is required"
              /\ (c.authMethod = AWSAuth /\ ~c.awsConfig.isNil /\ c.awsConfig.Region # ""
                      /\ c.awsConfig.Credentials = Nil) =>
                     validate(c) = "aws credentials are required"
              /\ (c.authMethod = AzureAuth /\ c.azureCreds = Nil) =>
                     validate(c) = "azure credentials are required"
              /\ (c.authMethod = GCPAuth /\ c.googleCreds.isNil) =>
                     validate(c) = "gcp credentials are required"
              /\ (c.authMethod = GCPAuth /\ ~c.googleCreds.isNil
                      /\ c.googleCreds.TokenSource = Nil) =>
                     validate(c) = "gcp token source is required"
        /\ ~validating => (cerr = "config" <=> ~accepted)

\* a Config with an empty connection string, no logger and an unknown method was
\* rejected (for its connection string)
C18_Witness ==
    /\ config.connString = "" /\ config.logger = Nil /\ config.authMethod = 99
    /\ ctor = "failed" /\ cerr = "config"

\* C19: for each of the 8 combinations of the three flags, the method DefaultConfig
\* gets from GetAuthMode is AWS when the AWS flag is set, else GCP when the GCP flag
\* is set, else Azure when the Azure flag is set, else the standard method.
C19_ModeByPriority ==
    dflt.st \in {"mode", "done"} =>
        LET aws == dflt.opts.UseAWSIAM
            gcp == dflt.opts.UseGCPDefaultCredentials
            azure == dflt.opts.UseAzureMSI
        IN  /\ aws => dflt.authMode = AWSAuth
            /\ (~aws /\ gcp) => dflt.authMode = GCPAuth
            /\ (~aws /\ ~gcp /\ azure) => dflt.authMode = AzureAuth
            /\ (~aws /\ ~gcp /\ ~azure) => dflt.authMode = StandardAuth
            /\ (dflt.st = "done" /\ dflt.err = Nil) => config.authMethod = dflt.authMode

\* all three flags set, and DefaultConfig returned a Config of the AWS method
C19_Witness ==
    /\ dflt.st = "done"
    /\ dflt.opts.UseAWSIAM /\ dflt.opts.UseGCPDefaultCredentials /\ dflt.opts.UseAzureMSI
    /\ dflt.err = Nil
    /\ config.authMethod = AWSAuth

\* C20: once the caller's context is cancelled, no further attempt of the fetch is
\* started: no step taken with the context cancelled adds an attempt to the sequence.
C20_NoAttemptAfterCancel ==
    [][ctxDone => Len(outs') <= Len(outs)]_vars

\* C21: a step of one BeforeConnectFn call or of its callback (an invocation, a
\* refresh, a failure) leaves the held token, the guard and the provider-call count
\* of the other call unchanged.
C21_OtherCoordinatorUntouched ==
    [][\A k \in Coordinators, j \in Coordinators :
          (k # j /\ two'.run[k] # two.run[k]) => two'.loc[Locals(j)] = two.loc[Locals(j)]]_vars

\* the first call's callback has failed a refresh and lost its token, while the
\* second call still holds the token of its initial fetch
C21_Witness ==
    /\ two.run[1].ret = "err"
    /\ two.loc[Locals(1)].token = NilToken
    /\ two.run[2].st = "ready"
    /\ two.loc[Locals(2)].token # NilToken
    /\ two.loc[Locals(2)].calls = 1
    /\ two.loc[Locals(2)].mutex = 0

\* C22: every credential a callback invocation has written is the credential of one
\* token that one provider call returned, also on the fast path while a refresh
\* replaces the token, and two invocations that found the same token invalid and
\* went for the guard and returned nil both wrote the same token's credential.
C22_NoTornToken ==
    Cloud =>
        /\ \A c \in Callers : ret[c] = "nil" => password[c] \in 1..fetchSeqs
        /\ \A c, d \in Callers :
              (Finished(c) /\ Finished(d) /\ path[c] = "slow" /\ path[d] = "slow"
                  /\ seen[c] = seen[d] /\ ret[c] = "nil" /\ ret[d] = "nil") =>
                  password[c] = password[d]

\* C23 as stated: at most one invocation is inside getAuthTokenWithRetry, and an
\* invocation for which the token was replaced while it waited on the guard makes
\* no provider call of its own: whoever is inside a fetch still sees held the
\* token its own first check found invalid.
C23_WaitersNeverFetch ==
    /\ Cardinality({c \in Callers : pc[c] = "fetch"}) <= 1
    /\ \A c \in Callers : pc[c] = "fetch" => (Held /\ token.id = seen[c])

\* C23 amended: at most one invocation is inside getAuthTokenWithRetry, it holds
\* the guard, and it is there only because the token held at its re-check was
\* invalid: an invocation that waited on the guard fetches only when the token it
\* finds after the wait is itself not valid.
C23_OneRefreshInFlight ==
    /\ Cardinality({c \in Callers : pc[c] = "fetch"}) <= 1
    /\ \A c \in Callers :
          pc[c] = "fetch" => (mutex = c /\ ctor = "ready" /\ Held /\ ~valid(token))

\* a refresh is in flight after one failed attempt while another invocation, which
\* found the same token invalid, waits for the guard
C23_Witness ==
    \E c, d \in Callers :
        /\ c # d
        /\ pc[c] = "fetch" /\ outs = <<"fail">>
        /\ pc[d] = "lock" /\ seen[d] = seen[c]

\* C24: the credential a successful invocation has written is that of the token its
\* own first check found valid, or else of a token newer than the one it found
\* invalid (re-checked valid under the guard, or fetched by the invocation); the
\* token it found invalid is never written.
C24_WrittenTokenCheckedOrFetched ==
    Cloud =>
        \A c \in Callers :
            (Finished(c) /\ ret[c] = "nil") =>
                /\ path[c] = "fast" => password[c] = seen[c]
                /\ path[c] = "slow" => (password[c] > seen[c] /\ password[c] <= fetchSeqs)

\* C25: fetch sequences are started only by BeforeConnectFn itself (one, before any
\* invocation) and by an invocation that holds the guard and found the held token
\* invalid: whenever more sequences have been started than the held token's own,
\* exactly one more has, and it is in flight in the hands of the guard's holder with
\* the held token invalid; so while the held token is valid no sequence has been
\* started after the one that produced it and no attempt is in flight.
C25_FetchOnlyWhenFoundInvalid ==
    (entry = "BeforeConnectFn" /\ Cloud /\ validate(config) = Nil) =>
        /\ ctor \in {"validate", "parse", "bcvalidate"} => (fetchSeqs = 0 /\ ~Held)
        /\ ctor = "fetch" => (fetchSeqs = 1 /\ ~Held /\ begun = 0)
        /\ ctor = "ready" => fetchSeqs >= 1
        /\ \A c \in Callers :
              pc[c] = "fetch" =>
                  (mutex = c /\ Held /\ ~valid(token) /\ fetchSeqs = token.id + 1)
        /\ Held =>
              \/ fetchSeqs = token.id /\ ~InFlight
              \/ /\ fetchSeqs = token.id + 1
                 /\ ~valid(token)
                 /\ \E c \in Callers : pc[c] = "fetch" /\ mutex = c

\* every invocation the bound allows has finished on the fast path with the token
\* of the one refresh there was, still valid, and no sequence was started since
C25_Witness ==
    /\ entry = "BeforeConnectFn" /\ Cloud
    /\ Held /\ valid(token) /\ token.id = 2 /\ fetchSeqs = 2
    /\ \E c, d \in Callers :
          /\ c # d
          /\ Finished(c) /\ path[c] = "slow" /\ password[c] = 2
          /\ Finished(d) /\ path[d] = "fast" /\ seen[d] = 2 /\ password[d] = 2

\* C26: in every fetch sequence retry.Do has waited once after each failed attempt
\* but the 3rd: 50 ms after the first failure and 100 ms after the second, each wait
\* longer than the one before, nothing added to them, and no wait after the last
\* attempt.
C26_BackoffDoubles ==
    /\ Len(slept) = Cardinality({i \in 1..Len(outs) : outs[i] # "ok" /\ i < 3})
    /\ Len(slept) <= 2
    /\ Len(slept) >= 1 => slept[1] = 50
    /\ Len(slept) >= 2 => slept[2] = 100
    /\ \A i \in 1..Len(slept) : \A j \in 1..Len(slept) : i < j => slept[i] < slept[j]

\* a sequence failed three times: two waits, none after the third failure
C26_Witness ==
    /\ Len(outs) = 3 /\ \A i \in 1..3 : outs[i] # "ok"
    /\ slept = <<50, 100>>

\* a token valid() is false for from the moment it is built, whatever the clock
NeverValid(tok) == config.authMethod = GCPAuth /\ tok.empty

\* C27: callers of the double-checked callback observe only what callers of the
\* always-lock callback can observe.  Under the always-lock callback every nil
\* return carries the credential of a fetched token, and a held token that was
\* never valid has been given to one caller at most, the one that fetched it (any
\* other caller finds it invalid under the lock and fetches again).
C27_ObservesAsAlwaysLock ==
    Cloud =>
        /\ \A c \in Callers :
              (Finished(c) /\ ret[c] = "nil") => password[c] \in 1..fetchSeqs
        /\ (Held /\ NeverValid(token)) =>
              Cardinality({c \in Callers : /\ Finished(c) /\ ret[c] = "nil"
                                           /\ password[c] = token.id}) <= 1

\* C28: GetAuthenticatedConnString is served by the coordinator that serves the
\* callback: it starts a fetch sequence only when the held token is absent or
\* invalid, and the string it returns carries the credential of the held token.
C28_StringFromHeldToken ==
    (entry = "GetAuthenticatedConnString" /\ Cloud /\ Held) =>
        /\ (ctor = "fetch" /\ outs = <<>>) => ~valid(token)
        /\ ctor = "done" => result.password = token.id

\* C29: parsing the URL that replaceDBPasswordURL returns gives back the user name
\* of the input URL and the new password, whatever characters they hold.
C29_URLRoundTrip ==
    (repl.st = "done" /\ repl.in.kind = "url" /\ repl.err = Nil) =>
        /\ Parse(repl.s).ok
        /\ Parse(repl.s).Username = Parse(repl.connString).Username
        /\ Parse(repl.s).Password = repl.newPassword

\* C30: substituting p1 and then p2 gives the string that substituting p2 alone
\* gives, for every accepted connection string and all passwords p1, p2 (p1 = p2
\* included).
C30_LastWriteWins ==
    (repl.st = "done" /\ repl.err = Nil) =>
        \A p2 \in NewPasswords :
            replaceDBPassword(repl.s, p2) = replaceDBPassword(repl.connString, p2)

\* the values of the password settings of a keyword/value string, in their order
PasswordValues(s) ==
    [i \in 1..Cardinality({j \in 1..Len(Settings(s).list) :
                              Settings(s).list[j].key = PasswordWord}) |-> 
        Settings(s).list[
            CHOOSE j \in 1..Len(Settings(s).list) :
                /\ Settings(s).list[j].key = PasswordWord
                /\ Cardinality({k \in 1..j : Settings(s).list[k].key = PasswordWord}) = i].val]

\* C31: for a keyword/value input, the string replaceDBPasswordDSN returns is a
\* keyword/value string with exactly one password setting, whose value is the new
\* password.
C31_OnePasswordSetting ==
    (repl.st = "done" /\ repl.in.kind = "dsn") =>
        /\ Settings(repl.s).ok
        /\ PasswordValues(repl.s) = <<repl.newPassword>>

Handles == {"Open", "GetConnector", "NewDBPool"}

\* C32: Open, GetConnector and NewDBPool validate the Config, then parse the
\* connection string, then fetch the initial token: with a Config that fails
\* validation or a connection string that does not parse no fetch sequence is ever
\* started and the call fails with that error; a fetch is in progress only for a
\* valid Config whose connection string parsed; after a failed initial fetch the
\* call has failed and no DB handle, connector or pool exists; a handle exists
\* only once all three steps have succeeded.
C32_ValidateParseFetch ==
    entry \in Handles =>
        /\ validate(config) # Nil =>
              /\ fetchSeqs = 0 /\ outs = <<>> /\ handle = "none"
              /\ ctor \in {"validate", "failed"}
              /\ ctor = "failed" => cerr = "config"
        /\ (validate(config) = Nil /\ ~Parses(config.connString)) =>
              /\ fetchSeqs = 0 /\ outs = <<>> /\ handle = "none"
              /\ ctor \in {"validate", "parse", "failed"}
              /\ ctor = "failed" => cerr = "parse"
        /\ ctor \in {"validate", "parse"} => (fetchSeqs = 0 /\ handle = "none")
        /\ fetchSeqs > 0 => (validate(config) = Nil /\ Parses(config.connString))
        /\ (ctor = "failed" /\ cerr = "fetch") =>
              (handle = "none" /\ Len(outs) = 3 /\ \A i \in 1..3 : outs[i] # "ok")
        /\ handle # "none" =>
              /\ handle = HandleOf(entry) /\ ctor = "ready"
              /\ validate(config) = Nil /\ Parses(config.connString)
              /\ Cloud => (fetchSeqs = 1 /\ outs # <<>> /\ outs[Len(outs)] = "ok")

\* GetConnector has failed after three failed attempts of the initial fetch
C32_Witness ==
    /\ entry = "GetConnector" /\ ctor = "failed" /\ cerr = "fetch"
    /\ handle = "none" /\ outs = <<"fail", "fail", "fail">>

\* the method of the last of the options WithAWSConfig, WithAzureCreds and
\* WithGoogleCreds in a sequence of options, StandardAuth when it holds none
RECURSIVE LastAuthOption(_)
LastAuthOption(os) ==
    IF os = <<>> THEN StandardAuth
    ELSE IF os[Len(os)].kind = "WithAWSConfig" THEN AWSAuth
    ELSE IF os[Len(os)].kind = "WithAzureCreds" THEN AzureAuth
    ELSE IF os[Len(os)].kind = "WithGoogleCreds" THEN GCPAuth
    ELSE LastAuthOption(SubSeq(os, 1, Len(os) - 1))

\* a Config with the parameters of every method but its own taken away
OnlyActive(c) ==
    [c EXCEPT !.awsConfig = IF c.authMethod = AWSAuth THEN c.awsConfig ELSE NilAWSConfig,
              !.azureCreds = IF c.authMethod = AzureAuth THEN c.azureCreds ELSE Nil,
              !.googleCreds = IF c.authMethod = GCPAuth THEN c.googleCreds
                              ELSE NilGoogleCreds]

\* C33: whatever options NewConfig has applied, the Config's method is that of the
\* last auth option (StandardAuth without one) and the parameter of that method is
\* the argument of that option; the logger is not nil unless WithLogger(nil) was
\* among the options; validate, the outcomes of getAuthToken and the token
\* generator it builds are those of the Config without the parameters of the other
\* methods; and a fetch is started only with the parameters of the method present.
C33_LastAuthOptionActive ==
    (opts # <<>> \/ entry = "NewConfig") =>
        /\ config.authMethod = LastAuthOption(opts)
        /\ config.authMethod \in {StandardAuth, AWSAuth, GCPAuth, AzureAuth}
        /\ \A i \in 1..Len(opts) :
              (\A j \in (i + 1)..Len(opts) :
                   opts[j].kind \notin {"WithAWSConfig", "WithAzureCreds", "WithGoogleCreds"}) =>
                  /\ opts[i].kind = "WithAWSConfig" => config.awsConfig = opts[i].awsConfig
                  /\ opts[i].kind = "WithAzureCreds" => config.azureCreds = opts[i].azureCreds
                  /\ opts[i].kind = "WithGoogleCreds" =>
                         config.googleCreds = opts[i].googleCreds
        /\ (\A i \in 1..Len(opts) : ~(opts[i].kind = "WithLogger" /\ opts[i].logger = Nil)) =>
              config.logger # Nil
        /\ validate(config) = validate(OnlyActive(config))
        /\ getAuthToken(config) = getAuthToken(OnlyActive(config))
        /\ tokenGeneratorOf(config) = tokenGeneratorOf(OnlyActive(config))
        /\ fetchSeqs > 0 => (Cloud /\ ~MissingParameter(config))

\* WithGoogleCreds and then WithAWSConfig were applied, both with usable
\* parameters, and BeforeConnectFn has fetched its initial token from AWS
C33_Witness ==
    /\ Len(opts) = 2
    /\ opts[1].kind = "WithGoogleCreds" /\ opts[1].googleCreds.TokenSource # Nil
    /\ opts[2].kind = "WithAWSConfig"
    /\ config.authMethod = AWSAuth /\ ~config.googleCreds.isNil
    /\ entry = "BeforeConnectFn" /\ ctor = "ready" /\ Held /\ fetchSeqs = 1

\* a getAuthTokenWithRetry call has been made and has returned
Returned == fetchSeqs > 0 /\ ~InFlight

\* C34: when getAuthTokenWithRetry has returned, it has returned a token and no
\* error, or an error and no token; a returned token is the one the last attempt
\* built, that attempt succeeded and all before it failed; an error is returned
\* after 3 failed attempts; and the caller got the token (it is the held one) or
\* the error (no handle is built after a failed first call; an invocation writes
\* a credential only after a call that returned a token).
C34_TokenXorError ==
    Returned =>
        /\ (Returns(retry).token # 0) <=> (Returns(retry).err = Nil)
        /\ Returns(retry).token # 0 =>
              /\ Returns(retry).token = Len(outs)
              /\ outs[Len(outs)] = "ok"
              /\ \A i \in 1..(Len(outs) - 1) : outs[i] # "ok"
              /\ entry \in {"BeforeConnectFn", "GetAuthenticatedConnString"} =>
                     (Held /\ token.id = fetchSeqs)
        /\ Returns(retry).err # Nil =>
              /\ Len(outs) = 3 /\ \A i \in 1..3 : outs[i] # "ok"
              /\ ~(Held /\ token.id = fetchSeqs)
              /\ fetchSeqs = 1 => (ctor = "failed" /\ cerr = "fetch")
        /\ \A c \in Callers :
              pc[c] = "write" => (Returns(retry).token # 0 /\ token.id = fetchSeqs)

\* the third attempt of a refresh succeeded after two failures, and its token is
\* the one returned and held
C34_Witness ==
    /\ Returned /\ fetchSeqs = 2
    /\ outs = <<"fail", "fail", "ok">>
    /\ Returns(retry) = [token |-> 3, err |-> Nil]
    /\ Held /\ token.id = 2

====
